---- MODULE Spec2Model ----
(***************************************************************************)
(* labid: exchange of a Kubernetes service-account token for a signed JWT. *)
(*                                                                         *)
(* Modelled are:                                                           *)
(*   - main (cmd): reading and parsing the signing key, the first fetch of *)
(*     the cluster's key set, and the refresh of the cached key set;       *)
(*   - tokenHandler.ExchangeToken (internal/token), which parses the       *)
(*     subject token, derives the username, collects the group mappers     *)
(*     and calls signedJwtIssuer.IssueToken;                               *)
(*   - the middleware chain JwkSetValidator -> UserContext -> GetToken     *)
(*     (internal/middleware, internal/handler), and UserContext alone;     *)
(*   - the WellKnown and Jwks handlers (cmd).                              *)
(* Spec serves one request at a time. SpecIssuer calls IssueToken on its   *)
(* own, twice, with mappers of the caller's choice. SpecConcurrent serves  *)
(* two exchanges at once, each with a context its caller may cancel.       *)
(*                                                                         *)
(* Strings the code takes apart (namespaces, scope strings, the            *)
(* Authorization header) are sequences of atoms; TrimPrefix, Split and     *)
(* Join work on those sequences as the Go functions work on bytes.         *)
(* Libraries (jwx, net/http, the Kubernetes client, the directory) are     *)
(* modelled by their outcomes, chosen nondeterministically at the call.    *)
(***************************************************************************)
EXTENDS Naturals, Integers, Sequences, FiniteSets, TLC

VARIABLES cfg, boot, localJwks, jwksCache, pc, op, req, loc, mw, calls, logged, out,
          issuances, inflight

vars == <<cfg, boot, localJwks, jwksCache, pc, op, req, loc, mw, calls, logged, out,
          issuances, inflight>>

(***************************************************************************)
(* Bounds of the model                                                     *)
(***************************************************************************)
MaxScopeLen == 3

MaxClock == 1

(***************************************************************************)
(* Program constants                                                       *)
(***************************************************************************)
DaplaGroupAnnotation == "dapla.ssb.no/impersonate-group"

UserNamespacePrefix == <<"user-ssb-">>

UserNamespacePrefixMw == <<"user-ssb-">>

EmailDomain == <<"@ssb.no">>

Hour == 3600

StatusBadRequest == 400

StatusUnauthorized == 401

StatusForbidden == 403

StatusNotFound == 404

StatusInternalServerError == 500

StatusOK == 200

GrantTypeTokenExchange == "urn:ietf:params:oauth:grant-type:token-exchange"

SubjectTokenTypeIdToken == "urn:ietf:params:oauth:grant-type:id_token"

(***************************************************************************)
(* String helpers (Go's strings package on sequences of atoms)             *)
(***************************************************************************)
SeqsUpTo(S, n) == UNION { [1..k -> S] : k \in 0..n }

HasPrefix(s, p) == Len(s) >= Len(p) /\ SubSeq(s, 1, Len(p)) = p

TrimPrefix(s, p) == IF HasPrefix(s, p) THEN SubSeq(s, Len(p) + 1, Len(s)) ELSE s

RECURSIVE SplitFrom(_, _, _)
SplitFrom(s, sep, cur) ==
    IF s = <<>> THEN <<cur>>
    ELSE IF Head(s) = sep THEN <<cur>> \o SplitFrom(Tail(s), sep, <<>>)
    ELSE SplitFrom(Tail(s), sep, Append(cur, Head(s)))

Split(s, sep) == SplitFrom(s, sep, <<>>)

RECURSIVE Join(_, _)
Join(parts, sep) ==
    IF parts = <<>> THEN <<>>
    ELSE IF Len(parts) = 1 THEN parts[1]
    ELSE parts[1] \o <<sep>> \o Join(Tail(parts), sep)

Contains(list, x) == \E i \in 1..Len(list) : list[i] = x

(***************************************************************************)
(* Errors: the message text and the sentinel errors errors.Is finds        *)
(***************************************************************************)
NoError == [isErr |-> FALSE, text |-> <<>>, wraps |-> {}]

NewError(t) == [isErr |-> TRUE, text |-> <<t>>, wraps |-> {}]

ErrInvalidToken == [isErr |-> TRUE, text |-> <<"invalid subject_token">>, wraps |-> {"ErrInvalidToken"}]

ErrorsIs(err, sentinel) == err.isErr /\ sentinel.wraps \subseteq err.wraps /\ sentinel.wraps # {}

\* fmt.Errorf("<prefix>%w", inner)
Wrap(prefix, inner) ==
    [isErr |-> TRUE, text |-> <<prefix>> \o inner.text, wraps |-> inner.wraps]

\* fmt.Errorf("%w: <middle>%w", first, inner)
Wrap2(first, middle, inner) ==
    [isErr |-> TRUE, text |-> first.text \o <<middle>> \o inner.text,
     wraps |-> first.wraps \cup inner.wraps]

(***************************************************************************)
(* Input domains                                                           *)
(***************************************************************************)
Keys == {"k1", "k2"}

KeySets == {{"k1"}, {"k1", "k2"}}

Namespaces ==
    { <<>>, <<"kari">>, <<"user-ssb-">>, <<"user-ssb-", "kari">>,
      <<"kari", "user-ssb-">>, <<"user-ssb-", "user-ssb-">> }

ServiceAccountNames == { <<"sa">> }

Groups == {"g1", "g2"}

GroupLists == { <<>>, <<"g1", "g2">>, <<"g2", "g1">> }

ScopeAtoms == {"current_group", "all_groups", ","}

ScopeStrings == SeqsUpTo(ScopeAtoms, MaxScopeLen)

Audiences == { <<>>, <<"aud1", "aud2">> }

GrantTypes == {GrantTypeTokenExchange, "password"}

SubjectTokenTypes == {SubjectTokenTypeIdToken, "access_token"}

(***************************************************************************)
(* The kubernetes.io claim                                                 *)
(***************************************************************************)
\* type KubernetesIoClaim struct { Namespace; ServiceAccount struct { Name } }
KubernetesIoClaim(ns, name) == [Namespace |-> ns, ServiceAccountName |-> name]

ZeroKubernetesIoClaim == KubernetesIoClaim(<<>>, <<>>)

\* The JSON value a token carries under "kubernetes.io": absent, a number, an
\* object with a non-string field, or an object holding some of the two fields.
EmbeddedClaim(shape, fields, ns, name) ==
    [shape |-> shape, fields |-> fields, namespace |-> ns, name |-> name]

EmbeddedClaims ==
    { EmbeddedClaim(sh, {}, <<>>, <<>>) : sh \in {"absent", "number", "badfield", "object"} }
    \cup { EmbeddedClaim("object", {"namespace", "serviceaccount"}, ns, n) :
             ns \in Namespaces, n \in ServiceAccountNames }

\* encoding/json into KubernetesIoClaim: a field the object lacks keeps its zero value
UnmarshalKubernetesIoClaim(e) ==
    KubernetesIoClaim(IF "namespace" \in e.fields THEN e.namespace ELSE <<>>,
                      IF "serviceaccount" \in e.fields THEN e.name ELSE <<>>)

Decodable(e) == e.shape \in {"absent", "object"}

(***************************************************************************)
(* Raw tokens: the empty string, text that is no JWS, or a JWS signed by   *)
(* some key, possibly with a broken signature or outside its validity.     *)
(***************************************************************************)
RawToken(form, key, defect, k8s) == [form |-> form, key |-> key, defect |-> defect, k8s |-> k8s]

EmptyToken == RawToken("empty", "k1", "none", EmbeddedClaim("absent", {}, <<>>, <<>>))

GarbageToken == RawToken("garbage", "k1", "none", EmbeddedClaim("absent", {}, <<>>, <<>>))

\* A JWS with a broken signature or outside its validity carries a well-formed claim:
\* only the defect stands between it and acceptance. The claims of every shape come
\* signed by the first key, the well-formed claim by every key.
RawTokens ==
    {EmptyToken, GarbageToken}
    \cup { RawToken("jws", "k1", "none", e) : e \in EmbeddedClaims }
    \cup { RawToken("jws", k, "none",
                    EmbeddedClaim("object", {"namespace", "serviceaccount"},
                                  <<"user-ssb-", "kari">>, <<"sa">>)) : k \in Keys }
    \cup { RawToken("jws", k, d,
                    EmbeddedClaim("object", {"namespace", "serviceaccount"},
                                  <<"user-ssb-", "kari">>, <<"sa">>)) :
             k \in Keys, d \in {"badsig", "expired"} }

\* What the key source answers: an error, or a key set
JwksOutcomes ==
    { [ok |-> FALSE, keys |-> {}] } \cup { [ok |-> TRUE, keys |-> ks] : ks \in KeySets }

\* jwt.Parse(raw, WithKeySet(jwks), WithValidate(true), WithTypedClaim("kubernetes.io", ...)):
\* the compact form must parse, the signature must verify with a key of the set,
\* the payload must decode (the typed claim included), exp/nbf must hold.
JwtParse(raw, keys) ==
    IF raw.form # "jws" THEN [err |-> NewError("jwt: invalid compact serialization"), hasK8s |-> FALSE, k8s |-> ZeroKubernetesIoClaim]
    ELSE IF raw.key \notin keys \/ raw.defect = "badsig"
         THEN [err |-> NewError("jwt: could not verify message"), hasK8s |-> FALSE, k8s |-> ZeroKubernetesIoClaim]
    ELSE IF ~Decodable(raw.k8s)
         THEN [err |-> NewError("jwt: could not decode claim kubernetes.io"), hasK8s |-> FALSE, k8s |-> ZeroKubernetesIoClaim]
    ELSE IF raw.defect = "expired"
         THEN [err |-> NewError("jwt: exp not satisfied"), hasK8s |-> FALSE, k8s |-> ZeroKubernetesIoClaim]
    ELSE [err |-> NoError, hasK8s |-> raw.k8s.shape = "object",
          k8s |-> UnmarshalKubernetesIoClaim(raw.k8s)]

\* token.Get("kubernetes.io", &dst)
TokenGetK8s(tok) ==
    IF tok.hasK8s THEN [err |-> NoError, k8s |-> tok.k8s]
    ELSE [err |-> NewError("jwt: field kubernetes.io not found"), k8s |-> ZeroKubernetesIoClaim]

\* An upstream or library call: its name, its string arguments, what it answered
Call(fn, a1, a2, ret) == [fn |-> fn, a1 |-> a1, a2 |-> a2, ret |-> ret]

\* Parse without its call of token.Get: the zero claim is returned on success
ParseWithoutGet(rawToken, jwks) ==
    IF ~jwks.ok
    THEN [claim |-> ZeroKubernetesIoClaim, ok |-> FALSE,
          err |-> Wrap("get jwks: ", NewError("jwks source unavailable")),
          calls |-> <<Call("Jwks.Get", <<>>, <<>>, jwks)>>]
    ELSE LET parsed == JwtParse(rawToken, jwks.keys)
             trace == <<Call("Jwks.Get", <<>>, <<>>, jwks),
                        Call("jwt.Parse", <<>>, <<>>, parsed.err)>>
         IN  IF parsed.err.isErr
             THEN [claim |-> ZeroKubernetesIoClaim, ok |-> FALSE,
                   err |-> Wrap2(ErrInvalidToken, ": parse and validate token: ", parsed.err),
                   calls |-> trace]
             ELSE [claim |-> ZeroKubernetesIoClaim, ok |-> TRUE, err |-> NoError, calls |-> trace]

\* Parse wrapping the library's error alone, without ErrInvalidToken
ParseUnwrapped(rawToken, jwks) ==
    IF ~jwks.ok
    THEN [claim |-> ZeroKubernetesIoClaim, ok |-> FALSE,
          err |-> Wrap("get jwks: ", NewError("jwks source unavailable")),
          calls |-> <<Call("Jwks.Get", <<>>, <<>>, jwks)>>]
    ELSE LET parsed == JwtParse(rawToken, jwks.keys)
             got == TokenGetK8s(parsed)
             trace == <<Call("Jwks.Get", <<>>, <<>>, jwks),
                        Call("jwt.Parse", <<>>, <<>>, parsed.err)>>
         IN  IF parsed.err.isErr
             THEN [claim |-> ZeroKubernetesIoClaim, ok |-> FALSE,
                   err |-> Wrap("parse and validate token: ", parsed.err),
                   calls |-> trace]
             ELSE IF got.err.isErr
             THEN [claim |-> ZeroKubernetesIoClaim, ok |-> FALSE,
                   err |-> Wrap2(ErrInvalidToken, ": unmarshal kubernetes.io claim: ", got.err),
                   calls |-> trace]
             ELSE [claim |-> got.k8s, ok |-> TRUE, err |-> NoError, calls |-> trace]

\* Parse asking the key source a second time when the first call failed
ParseGetRetried(rawToken, jwks) ==
    IF ~jwks.ok
    THEN [claim |-> ZeroKubernetesIoClaim, ok |-> FALSE,
          err |-> Wrap("get jwks: ", NewError("jwks source unavailable")),
          calls |-> <<Call("Jwks.Get", <<>>, <<>>, jwks), Call("Jwks.Get", <<>>, <<>>, jwks)>>]
    ELSE LET parsed == JwtParse(rawToken, jwks.keys)
             got == TokenGetK8s(parsed)
             trace == <<Call("Jwks.Get", <<>>, <<>>, jwks),
                        Call("jwt.Parse", <<>>, <<>>, parsed.err)>>
         IN  IF parsed.err.isErr
             THEN [claim |-> ZeroKubernetesIoClaim, ok |-> FALSE,
                   err |-> Wrap2(ErrInvalidToken, ": parse and validate token: ", parsed.err),
                   calls |-> trace]
             ELSE IF got.err.isErr
             THEN [claim |-> ZeroKubernetesIoClaim, ok |-> FALSE,
                   err |-> Wrap2(ErrInvalidToken, ": unmarshal kubernetes.io claim: ", got.err),
                   calls |-> trace]
             ELSE [claim |-> got.k8s, ok |-> TRUE, err |-> NoError, calls |-> trace]

\* Parse looking at the token's syntax before it asks for the key set
ParseSyntaxFirst(rawToken, jwks) ==
    IF rawToken.form # "jws"
    THEN LET parsed == JwtParse(rawToken, {})
         IN  [claim |-> ZeroKubernetesIoClaim, ok |-> FALSE,
              err |-> Wrap2(ErrInvalidToken, ": parse and validate token: ", parsed.err),
              calls |-> <<Call("jwt.Parse", <<>>, <<>>, parsed.err)>>]
    ELSE IF ~jwks.ok
    THEN [claim |-> ZeroKubernetesIoClaim, ok |-> FALSE,
          err |-> Wrap("get jwks: ", NewError("jwks source unavailable")),
          calls |-> <<Call("Jwks.Get", <<>>, <<>>, jwks)>>]
    ELSE LET parsed == JwtParse(rawToken, jwks.keys)
             got == TokenGetK8s(parsed)
             trace == <<Call("Jwks.Get", <<>>, <<>>, jwks),
                        Call("jwt.Parse", <<>>, <<>>, parsed.err)>>
         IN  IF parsed.err.isErr
             THEN [claim |-> ZeroKubernetesIoClaim, ok |-> FALSE,
                   err |-> Wrap2(ErrInvalidToken, ": parse and validate token: ", parsed.err),
                   calls |-> trace]
             ELSE IF got.err.isErr
             THEN [claim |-> ZeroKubernetesIoClaim, ok |-> FALSE,
                   err |-> Wrap2(ErrInvalidToken, ": unmarshal kubernetes.io claim: ", got.err),
                   calls |-> trace]
             ELSE [claim |-> got.k8s, ok |-> TRUE, err |-> NoError, calls |-> trace]

\* kubernetesTokenParser.Parse
Parse(rawToken, jwks) ==
    IF ~jwks.ok
    THEN [claim |-> ZeroKubernetesIoClaim, ok |-> FALSE,
          err |-> Wrap("get jwks: ", NewError("jwks source unavailable")),
          calls |-> <<Call("Jwks.Get", <<>>, <<>>, jwks)>>]
    ELSE LET parsed == JwtParse(rawToken, jwks.keys)
             got == TokenGetK8s(parsed)
             trace == <<Call("Jwks.Get", <<>>, <<>>, jwks),
                        Call("jwt.Parse", <<>>, <<>>, parsed.err)>>
         IN  IF parsed.err.isErr
             THEN [claim |-> ZeroKubernetesIoClaim, ok |-> FALSE,
                   err |-> Wrap2(ErrInvalidToken, ": parse and validate token: ", parsed.err),
                   calls |-> trace]
             ELSE IF got.err.isErr
             THEN [claim |-> ZeroKubernetesIoClaim, ok |-> FALSE,
                   err |-> Wrap2(ErrInvalidToken, ": unmarshal kubernetes.io claim: ", got.err),
                   calls |-> trace]
             ELSE [claim |-> got.k8s, ok |-> TRUE, err |-> NoError, calls |-> trace]

(***************************************************************************)
(* Upstream outcomes                                                       *)
(***************************************************************************)
\* getSa: an error, or a service account with its annotations
SaOutcome(failed, annotations) == [failed |-> failed, annotations |-> annotations]

SaOutcomes ==
    { SaOutcome(TRUE, [k \in {} |-> ""]),
      SaOutcome(FALSE, [k \in {} |-> ""]),
      SaOutcome(FALSE, [k \in {"owner"} |-> "g1"]) }
    \cup { SaOutcome(FALSE, [k \in {DaplaGroupAnnotation} |-> g]) : g \in Groups }

\* The directory: a transport error, or an HTTP status with a body
DirOutcome(transport, status, decodable, groups) ==
    [transport |-> transport, status |-> status, decodable |-> decodable, groups |-> groups]

DirOutcomes ==
    { DirOutcome("error", 0, FALSE, <<>>), DirOutcome("ok", StatusOK, FALSE, <<>>) }
    \cup { DirOutcome("ok", StatusOK, TRUE, gs) : gs \in GroupLists }
    \cup { DirOutcome("ok", st, FALSE, <<>>) :
             st \in {StatusNotFound, StatusUnauthorized, StatusForbidden,
                     StatusInternalServerError, 418} }

SignOutcomes == {"ok", "buildErr", "signErr"}

(***************************************************************************)
(* jwt.Builder and the signed credential                                   *)
(***************************************************************************)
EmptyBuilder ==
    [has |-> {}, sub |-> <<>>, iss |-> "", aud |-> <<>>, scope |-> <<>>, exp |-> 0, iat |-> 0,
     dapla_group |-> "", dapla_groups |-> <<>>, group |-> ""]

NoCredential == [signed |-> FALSE, alg |-> "", key |-> "", claims |-> EmptyBuilder]

\* jwt.Sign(token, jwt.WithKey(jwa.RS256(), key))
Sign(claims, key) == [signed |-> TRUE, alg |-> "RS256", key |-> key, claims |-> claims]

(***************************************************************************)
(* Group mappers                                                           *)
(***************************************************************************)
MapperResult(err, builder, trace) == [err |-> err, builder |-> builder, calls |-> trace]

\* CurrentGroupMapper passing getSa its arguments in the other order
CurrentGroupMapperSwapped(name, namespace, builder, sa) ==
    LET trace == <<Call("getSa", namespace, name, sa)>>
    IN  IF sa.failed
        THEN MapperResult(NewError("serviceaccounts: get failed"), builder, trace)
        ELSE IF DaplaGroupAnnotation \in DOMAIN sa.annotations
        THEN MapperResult(NoError,
                 [builder EXCEPT !.has = @ \cup {"dapla.group"},
                                 !.dapla_group = sa.annotations[DaplaGroupAnnotation]],
                 trace)
        ELSE MapperResult(NewError("service account has no associated group"), builder, trace)

\* CurrentGroupMapper leaving dapla.group out when the builder already holds the
\* list of all groups
CurrentGroupMapperUnlessListed(name, namespace, builder, sa) ==
    LET trace == <<Call("getSa", name, namespace, sa)>>
    IN  IF sa.failed
        THEN MapperResult(NewError("serviceaccounts: get failed"), builder, trace)
        ELSE IF DaplaGroupAnnotation \in DOMAIN sa.annotations
        THEN IF "dapla.groups" \in builder.has
             THEN MapperResult(NoError, builder, trace)
             ELSE MapperResult(NoError,
                      [builder EXCEPT !.has = @ \cup {"dapla.group"},
                                      !.dapla_group = sa.annotations[DaplaGroupAnnotation]],
                      trace)
        ELSE MapperResult(NewError("service account has no associated group"), builder, trace)

\* token.CurrentGroupMapper: the Mapper it returns, run on builder
CurrentGroupMapper(name, namespace, builder, sa) ==
    LET trace == <<Call("getSa", name, namespace, sa)>>
    IN  IF sa.failed
        THEN MapperResult(NewError("serviceaccounts: get failed"), builder, trace)
        ELSE IF DaplaGroupAnnotation \in DOMAIN sa.annotations
        THEN MapperResult(NoError,
                 [builder EXCEPT !.has = @ \cup {"dapla.group"},
                                 !.dapla_group = sa.annotations[DaplaGroupAnnotation]],
                 trace)
        ELSE MapperResult(NewError("service account has no associated group"), builder, trace)

ListResult(groups, err) == [groups |-> groups, err |-> err]

\* teamapi client.ListGroups
TeamApiListGroups(userPrincipalEmail, d) ==
    IF d.transport = "error"
    THEN ListResult(<<>>, Wrap("get user groups for: ", NewError("transport error")))
    ELSE IF d.status = StatusOK
    THEN IF d.decodable THEN ListResult(d.groups, NoError)
         ELSE ListResult(<<>>, Wrap("decode userinfo response: ", NewError("json: invalid")))
    ELSE IF d.status = StatusNotFound
    THEN ListResult(<<>>, NewError("team api could not find user"))
    ELSE IF d.status \in {StatusUnauthorized, StatusForbidden, StatusInternalServerError}
    THEN ListResult(<<>>, NewError("get user groups, team api returned status"))
    ELSE ListResult(<<>>, NewError("get user groups, team api returned unknown status"))

\* daplaapi Client.ListGroups: the GraphQL query fails, or its nodes are returned
DaplaApiListGroups(userPrincipalEmail, d) ==
    IF d.transport = "error" \/ d.status # StatusOK \/ ~d.decodable
    THEN ListResult(<<>>, Wrap("query for dapla api failed ", NewError("graphql error")))
    ELSE ListResult(d.groups, NoError)

\* AllGroupsPopulator asking the directory for the bare username
AllGroupsPopulatorBareUsername(impl, username, builder, d) ==
    LET email == username
        listed == IF impl = "daplaapi" THEN DaplaApiListGroups(email, d)
                  ELSE TeamApiListGroups(email, d)
        trace == <<Call("ListGroups", email, <<>>, d)>>
    IN  IF listed.err.isErr
        THEN MapperResult(listed.err, builder, trace)
        ELSE MapperResult(NoError,
                 [builder EXCEPT !.has = @ \cup {"dapla.groups"}, !.dapla_groups = listed.groups],
                 trace)

\* AllGroupsPopulator (teamapi and daplaapi): the Mapper it returns, run on builder
AllGroupsPopulator(impl, username, builder, d) ==
    LET email == username \o EmailDomain
        listed == IF impl = "daplaapi" THEN DaplaApiListGroups(email, d)
                  ELSE TeamApiListGroups(email, d)
        trace == <<Call("ListGroups", email, <<>>, d)>>
    IN  IF listed.err.isErr
        THEN MapperResult(listed.err, builder, trace)
        ELSE MapperResult(NoError,
                 [builder EXCEPT !.has = @ \cup {"dapla.groups"}, !.dapla_groups = listed.groups],
                 trace)

Mapper(kind, name, namespace, username) ==
    [kind |-> kind, name |-> name, namespace |-> namespace, username |-> username]

(***************************************************************************)
(* signedJwtIssuer.IssueToken                                              *)
(***************************************************************************)
IssueResult(token, err, trace) == [token |-> token, err |-> err, calls |-> trace]

\* the calls of jwtBuilder.Build() and jwt.Sign, as far as they get
BuildAndSign(signing) ==
    IF signing = "buildErr" THEN <<Call("jwt.Build", <<>>, <<>>, [ok |-> FALSE])>>
    ELSE <<Call("jwt.Build", <<>>, <<>>, [ok |-> TRUE]),
           Call("jwt.Sign", <<>>, <<>>, [ok |-> signing = "ok"])>>

\* IssueToken joining the scopes with a space, as OAuth writes a scope list
IssueTokenSignSpaceJoined(c, builder, username, audience, scopes, now1, now2, signing) ==
    LET b1 == [builder EXCEPT !.has = @ \cup {"sub", "exp", "iat"},
                              !.sub = username, !.exp = now1 + c.Expiry, !.iat = now2]
        b2 == IF c.Issuer # "" THEN [b1 EXCEPT !.has = @ \cup {"iss"}, !.iss = c.Issuer] ELSE b1
        b3 == [b2 EXCEPT !.has = @ \cup {"aud", "scope"},
                         !.aud = audience, !.scope = Join(scopes, " ")]
    IN  IF signing = "buildErr"
        THEN IssueResult(NoCredential, NewError("jwt: build failed"), BuildAndSign(signing))
        ELSE IF signing = "signErr"
        THEN IssueResult(NoCredential, NewError("jwt: sign failed"), BuildAndSign(signing))
        ELSE IssueResult(Sign(b3, c.SigningKey), NoError, BuildAndSign(signing))

\* IssueToken numbering its credentials: a jti claim counting the credentials
\* issued before
IssueTokenSignNumbered(c, builder, username, audience, scopes, now1, now2, signing) ==
    LET b1 == [builder EXCEPT !.has = @ \cup {"sub", "exp", "iat"},
                              !.sub = username, !.exp = now1 + c.Expiry, !.iat = now2]
        b2 == IF c.Issuer # "" THEN [b1 EXCEPT !.has = @ \cup {"iss"}, !.iss = c.Issuer] ELSE b1
        b3 == [b2 EXCEPT !.has = @ \cup {"aud", "scope",
                                         IF issuances = <<>> THEN "jti:0" ELSE "jti:1"},
                         !.aud = audience, !.scope = Join(scopes, ",")]
    IN  IF signing = "buildErr"
        THEN IssueResult(NoCredential, NewError("jwt: build failed"), BuildAndSign(signing))
        ELSE IF signing = "signErr"
        THEN IssueResult(NoCredential, NewError("jwt: sign failed"), BuildAndSign(signing))
        ELSE IssueResult(Sign(b3, c.SigningKey), NoError, BuildAndSign(signing))

\* IssueToken returning the bytes of jwt.Sign without looking at its error
IssueTokenSignErrorIgnored(c, builder, username, audience, scopes, now1, now2, signing) ==
    LET b1 == [builder EXCEPT !.has = @ \cup {"sub", "exp", "iat"},
                              !.sub = username, !.exp = now1 + c.Expiry, !.iat = now2]
        b2 == IF c.Issuer # "" THEN [b1 EXCEPT !.has = @ \cup {"iss"}, !.iss = c.Issuer] ELSE b1
        b3 == [b2 EXCEPT !.has = @ \cup {"aud", "scope"},
                         !.aud = audience, !.scope = Join(scopes, ",")]
    IN  IF signing = "buildErr"
        THEN IssueResult(NoCredential, NewError("jwt: build failed"), BuildAndSign(signing))
        ELSE IssueResult(Sign(b3, c.SigningKey), NoError, BuildAndSign(signing))

\* IssueToken after the mapper loop: the fixed claims, Build and Sign.
\* now1 and now2 are what the two calls of time.Now() return; time is counted
\* from the first call, and the clock may have advanced by the second.
IssueTokenSign(c, builder, username, audience, scopes, now1, now2, signing) ==
    LET b1 == [builder EXCEPT !.has = @ \cup {"sub", "exp", "iat"},
                              !.sub = username, !.exp = now1 + c.Expiry, !.iat = now2]
        b2 == IF c.Issuer # "" THEN [b1 EXCEPT !.has = @ \cup {"iss"}, !.iss = c.Issuer] ELSE b1
        b3 == [b2 EXCEPT !.has = @ \cup {"aud", "scope"},
                         !.aud = audience, !.scope = Join(scopes, ",")]
    IN  IF signing = "buildErr"
        THEN IssueResult(NoCredential, NewError("jwt: build failed"), BuildAndSign(signing))
        ELSE IF signing = "signErr"
        THEN IssueResult(NoCredential, NewError("jwt: sign failed"), BuildAndSign(signing))
        ELSE IssueResult(Sign(b3, c.SigningKey), NoError, BuildAndSign(signing))

\* A Mapper of the caller's that writes the claims IssueToken sets itself
ForeignClaimsMapper(builder) ==
    MapperResult(NoError,
        [builder EXCEPT !.has = @ \cup {"sub", "iss", "exp", "iat", "aud", "scope"},
                        !.sub = <<"mallory">>, !.iss = "https://other.example",
                        !.exp = 0, !.iat = 0,
                        !.aud = <<"other">>, !.scope = <<"admin">>],
        <<>>)

\* m(ctx, jwtBuilder) for one of the mappers
RunMapper(c, m, builder, sa, d) ==
    IF m.kind = "current_group" THEN CurrentGroupMapper(m.name, m.namespace, builder, sa)
    ELSE IF m.kind = "all_groups"
    THEN AllGroupsPopulator(c.PopulateAllGroups, m.username, builder, d)
    ELSE ForeignClaimsMapper(builder)

\* for _, m := range mappers: the first error ends the loop
RECURSIVE RunMappers(_, _, _, _, _)
RunMappers(c, mappers, builder, sa, d) ==
    IF mappers = <<>> THEN MapperResult(NoError, builder, <<>>)
    ELSE LET r == RunMapper(c, Head(mappers), builder, sa, d)
         IN  IF r.err.isErr THEN r
             ELSE LET rest == RunMappers(c, Tail(mappers), r.builder, sa, d)
                  IN  MapperResult(rest.err, rest.builder, r.calls \o rest.calls)

\* IssueToken setting the fixed claims first and running the mappers after them
IssueTokenMappersLast(c, username, audience, scopes, mappers, sa, d, now1, now2, signing) ==
    LET fixed == IssueTokenSign(c, EmptyBuilder, username, audience, scopes, now1, now2, "ok")
        mapped == RunMappers(c, mappers, fixed.token.claims, sa, d)
    IN  IF mapped.err.isErr
        THEN IssueResult(NoCredential, mapped.err, mapped.calls)
        ELSE IF signing = "buildErr"
        THEN IssueResult(NoCredential, NewError("jwt: build failed"),
                         mapped.calls \o BuildAndSign(signing))
        ELSE IF signing = "signErr"
        THEN IssueResult(NoCredential, NewError("jwt: sign failed"),
                         mapped.calls \o BuildAndSign(signing))
        ELSE IssueResult(Sign(mapped.builder, c.SigningKey), NoError,
                         mapped.calls \o BuildAndSign(signing))

\* signedJwtIssuer.IssueToken as one call: a new builder, the mappers, the fixed
\* claims, Build and Sign
IssueToken(c, username, audience, scopes, mappers, sa, d, now1, now2, signing) ==
    LET mapped == RunMappers(c, mappers, EmptyBuilder, sa, d)
    IN  IF mapped.err.isErr
        THEN IssueResult(NoCredential, mapped.err, mapped.calls)
        ELSE LET signed == IssueTokenSign(c, mapped.builder, username, audience, scopes,
                                          now1, now2, signing)
             IN  IssueResult(signed.token, signed.err, mapped.calls \o signed.calls)

(***************************************************************************)
(* tokenHandler.ExchangeToken                                              *)
(***************************************************************************)
Response(kind, status, code, hasDescription, description, err, token, expiresIn) ==
    [kind |-> kind, status |-> status, code |-> code, hasDescription |-> hasDescription,
     description |-> description, err |-> err, token |-> token, expiresIn |-> expiresIn,
     contentType |-> ""]

NoResponse == Response("none", 0, "", FALSE, <<>>, NoError, NoCredential, 0)

\* &api.ExchangeToken4XXStatusCode{StatusCode: 400, Response: {Error: invalid_request, ...}}, nil
BadRequest(hasDescription, description) ==
    Response("4XX", StatusBadRequest, "invalid_request", hasDescription, description,
             NoError, NoCredential, 0)

\* nil, err
ErrorResult(err) == Response("error", 0, "", FALSE, <<>>, err, NoCredential, 0)

\* &api.ExchangeTokenOK{...}, nil
ExchangeTokenOK(token) == Response("OK", StatusOK, "", FALSE, <<>>, NoError, token, Hour)

Request(grantType, subjectTokenType, subjectToken, hasScope, scope, audience) ==
    [isNil |-> FALSE, GrantType |-> grantType, SubjectTokenType |-> subjectTokenType,
     SubjectToken |-> subjectToken, hasScope |-> hasScope, Scope |-> scope,
     Audience |-> audience]

NilRequest ==
    [isNil |-> TRUE, GrantType |-> "", SubjectTokenType |-> "", SubjectToken |-> EmptyToken,
     hasScope |-> FALSE, Scope |-> <<>>, Audience |-> <<>>]

\* ExchangeToken never reads GrantType and SubjectTokenType: the requests with
\* another value than the documented one come with two subject tokens and one scope.
Requests ==
    {NilRequest}
    \cup { Request(GrantTypeTokenExchange, SubjectTokenTypeIdToken, tok, TRUE, sc, aud) :
             tok \in RawTokens, sc \in ScopeStrings, aud \in Audiences }
    \cup { Request(GrantTypeTokenExchange, SubjectTokenTypeIdToken, tok, FALSE, <<>>, aud) :
             tok \in RawTokens, aud \in Audiences }
    \cup { Request(g, t, tok, TRUE, <<"current_group">>, <<>>) :
             g \in GrantTypes, t \in SubjectTokenTypes,
             tok \in {EmptyToken,
                      RawToken("jws", "k1", "none",
                               EmbeddedClaim("object", {"namespace", "serviceaccount"},
                                             <<"user-ssb-", "kari">>, <<"sa">>))} }

\* The locals of ExchangeToken and IssueToken: scopes, the claim and error ParseToken
\* returned, username, mappers, the loop position, jwtBuilder, the failing mapper's error
Locals(scopes, parseErr, claim, username, mappers, idx, builder, mapperErr) ==
    [scopes |-> scopes, parseErr |-> parseErr, claim |-> claim, username |-> username,
     mappers |-> mappers, idx |-> idx, builder |-> builder, mapperErr |-> mapperErr]

NoLocals == Locals(<<>>, NoError, ZeroKubernetesIoClaim, <<>>, <<>>, 1, EmptyBuilder, NoError)

\* scopes as ExchangeToken computes them: nil without a scope, else strings.Split
RequestScopes(r) == IF r.hasScope THEN Split(r.Scope, ",") ELSE <<>>

\* CollectMappers looking for the scope's name anywhere in a requested scope
\* (strings.Contains on each piece) instead of a piece equal to it
CollectMappersSubstring(h, scopes, claim, username) ==
    (IF h.PopulateCurrentGroup
        /\ \E i \in 1..Len(scopes) : \E j \in 1..Len(scopes[i]) : scopes[i][j] = "current_group"
     THEN <<Mapper("current_group", claim.ServiceAccountName, claim.Namespace, <<>>)>>
     ELSE <<>>)
    \o
    (IF h.PopulateAllGroups # "nil"
        /\ \E i \in 1..Len(scopes) : \E j \in 1..Len(scopes[i]) : scopes[i][j] = "all_groups"
     THEN <<Mapper("all_groups", <<>>, <<>>, username)>>
     ELSE <<>>)

\* the mappers ExchangeToken appends, in its order
CollectMappers(h, scopes, claim, username) ==
    (IF h.PopulateCurrentGroup /\ Contains(scopes, <<"current_group">>)
     THEN <<Mapper("current_group", claim.ServiceAccountName, claim.Namespace, <<>>)>>
     ELSE <<>>)
    \o
    (IF h.PopulateAllGroups # "nil" /\ Contains(scopes, <<"all_groups">>)
     THEN <<Mapper("all_groups", <<>>, <<>>, username)>>
     ELSE <<>>)

Collected(returned, res, locals, trace) ==
    [returned |-> returned, res |-> res, loc |-> locals, calls |-> trace]

\* ExchangeToken answering every error of ParseToken with 400 invalid_request
ExchangeTokenCollectAllBadRequest(h, r, jwks) ==
    IF r.isNil THEN Collected(TRUE, BadRequest(FALSE, <<>>), NoLocals, <<>>)
    ELSE
    LET scopes == RequestScopes(r)
        parsed == Parse(r.SubjectToken, jwks)
        username == TrimPrefix(parsed.claim.Namespace, UserNamespacePrefix)
        early == Locals(scopes, parsed.err, parsed.claim, <<>>, <<>>, 1, EmptyBuilder, NoError)
    IN  IF parsed.err.isErr
        THEN Collected(TRUE, BadRequest(TRUE, parsed.err.text), early, parsed.calls)
        ELSE IF username = parsed.claim.Namespace
        THEN Collected(TRUE, ErrorResult(NewError("invalid user namespace")), early, parsed.calls)
        ELSE Collected(FALSE, NoResponse,
                 Locals(scopes, parsed.err, parsed.claim, username,
                        CollectMappers(h, scopes, parsed.claim, username),
                        1, EmptyBuilder, NoError),
                 parsed.calls)

\* ExchangeToken with one jwt.Builder kept for all requests: a request starts on
\* the builder another request is filling
ExchangeTokenCollectSharedBuilder(h, r, jwks) ==
    IF r.isNil THEN Collected(TRUE, BadRequest(FALSE, <<>>), NoLocals, <<>>)
    ELSE
    LET scopes == RequestScopes(r)
        parsed == Parse(r.SubjectToken, jwks)
        username == TrimPrefix(parsed.claim.Namespace, UserNamespacePrefix)
        early == Locals(scopes, parsed.err, parsed.claim, <<>>, <<>>, 1, EmptyBuilder, NoError)
        busy == { j \in DOMAIN inflight : inflight[j].pc = "issue" }
        shared == IF busy = {} THEN EmptyBuilder ELSE inflight[CHOOSE j \in busy : TRUE].loc.builder
    IN  IF parsed.err.isErr
        THEN IF ErrorsIs(parsed.err, ErrInvalidToken)
             THEN Collected(TRUE, BadRequest(TRUE, parsed.err.text), early, parsed.calls)
             ELSE Collected(TRUE, ErrorResult(parsed.err), early, parsed.calls)
        ELSE IF username = parsed.claim.Namespace
        THEN Collected(TRUE, ErrorResult(NewError("invalid user namespace")), early, parsed.calls)
        ELSE Collected(FALSE, NoResponse,
                 Locals(scopes, parsed.err, parsed.claim, username,
                        CollectMappers(h, scopes, parsed.claim, username),
                        1, shared, NoError),
                 parsed.calls)

\* ExchangeToken up to its call of IssueToken
ExchangeTokenCollect(h, r, jwks) ==
    IF r.isNil THEN Collected(TRUE, BadRequest(FALSE, <<>>), NoLocals, <<>>)
    ELSE
    LET scopes == RequestScopes(r)
        parsed == Parse(r.SubjectToken, jwks)
        username == TrimPrefix(parsed.claim.Namespace, UserNamespacePrefix)
        early == Locals(scopes, parsed.err, parsed.claim, <<>>, <<>>, 1, EmptyBuilder, NoError)
    IN  IF parsed.err.isErr
        THEN IF ErrorsIs(parsed.err, ErrInvalidToken)
             THEN Collected(TRUE, BadRequest(TRUE, parsed.err.text), early, parsed.calls)
             ELSE Collected(TRUE, ErrorResult(parsed.err), early, parsed.calls)
        ELSE IF username = parsed.claim.Namespace
        THEN Collected(TRUE, ErrorResult(NewError("invalid user namespace")), early, parsed.calls)
        ELSE Collected(FALSE, NoResponse,
                 Locals(scopes, parsed.err, parsed.claim, username,
                        CollectMappers(h, scopes, parsed.claim, username),
                        1, EmptyBuilder, NoError),
                 parsed.calls)

\* ExchangeToken handing IssueToken's error to its caller, without logging it
ExchangeTokenRespondSurfacing(issued) ==
    IF issued.err.isErr
    THEN [res |-> ErrorResult(issued.err), logs |-> <<>>]
    ELSE [res |-> ExchangeTokenOK(issued.token), logs |-> <<>>]

\* ExchangeToken after IssueToken returned: log and hide the error, or answer 200
ExchangeTokenRespond(issued) ==
    IF issued.err.isErr
    THEN [res |-> ErrorResult(NewError("unexpected error issuing token")),
          logs |-> <<issued.err.text>>]
    ELSE [res |-> ExchangeTokenOK(issued.token), logs |-> <<>>]

(***************************************************************************)
(* The middleware chain JwkSetValidator -> UserContext -> GetToken         *)
(***************************************************************************)
BearerPrefixLen == 7

BearerPrefix == <<"b", "e", "a", "r", "e", "r", " ">>

ToLower(c) ==
    CASE c = "B" -> "b" [] c = "E" -> "e" [] c = "A" -> "a" [] c = "R" -> "r"
      [] c = "S" -> "s" [] c = "I" -> "i" [] c = "C" -> "c" [] OTHER -> c

\* strings.EqualFold
EqualFold(a, b) ==
    /\ Len(a) = Len(b)
    /\ \A i \in 1..Len(a) : ToLower(a[i]) = ToLower(b[i])

\* An Authorization header: its first (at most seven) bytes, and the token after them.
\* A header shorter than seven bytes has no rest.
AuthHeader(pre, tok) == [pre |-> pre, tok |-> tok]

AuthHeaders ==
    { AuthHeader(<<>>, EmptyToken), AuthHeader(<<"b", "e", "a", "r">>, EmptyToken),
      AuthHeader(<<"B", "a", "s", "i", "c", " ", "x">>, EmptyToken),
      AuthHeader(<<"B", "a", "s", "i", "c", " ", "x">>, GarbageToken) }
    \cup { AuthHeader(p, t) :
             p \in {BearerPrefix, <<"B", "e", "a", "r", "e", "r", " ">>}, t \in RawTokens }

HttpResponse(status, body, token) ==
    Response("http", status, "", TRUE, body, NoError, token, 0)

\* the handler panicked: net/http recovers, nothing is written
Panicked == Response("panic", 0, "", FALSE, <<>>, NoError, NoCredential, 0)

ContextToken(kind, tok) == [kind |-> kind, hasK8s |-> tok.hasK8s, k8s |-> tok.k8s]

NoContextToken == [kind |-> "none", hasK8s |-> FALSE, k8s |-> ZeroKubernetesIoClaim]

UserInfo(name, group) == [Name |-> name, Group |-> group]

Chained(next, res, ctx, ui, trace) ==
    [next |-> next, res |-> res, ctx |-> ctx, ui |-> ui, calls |-> trace]

\* middleware.JwkSetValidator
JwkSetValidator(authHeader, jwks) ==
    IF authHeader.pre = <<>>
    THEN Chained(FALSE, HttpResponse(StatusUnauthorized, <<"missing authorization">>, NoCredential),
                 NoContextToken, UserInfo(<<>>, ""), <<>>)
    ELSE IF Len(authHeader.pre) < BearerPrefixLen
    THEN Chained(FALSE, Panicked, NoContextToken, UserInfo(<<>>, ""), <<>>)
    ELSE IF ~EqualFold(SubSeq(authHeader.pre, 1, BearerPrefixLen), BearerPrefix)
    THEN Chained(FALSE,
                 HttpResponse(StatusForbidden,
                              <<"incorrect authorization type, only bearer supported">>, NoCredential),
                 NoContextToken, UserInfo(<<>>, ""), <<>>)
    ELSE IF ~jwks.ok
    THEN Chained(FALSE, HttpResponse(StatusInternalServerError, <<"could not get JWKs">>, NoCredential),
                 NoContextToken, UserInfo(<<>>, ""), <<Call("getJwks", <<>>, <<>>, jwks)>>)
    ELSE LET parsed == JwtParse(authHeader.tok, jwks.keys)
             trace == <<Call("getJwks", <<>>, <<>>, jwks),
                        Call("jwt.Parse", <<>>, <<>>, parsed.err)>>
         IN  IF parsed.err.isErr
             THEN Chained(FALSE, HttpResponse(StatusUnauthorized, parsed.err.text, NoCredential),
                          NoContextToken, UserInfo(<<>>, ""), trace)
             ELSE Chained(TRUE, NoResponse, ContextToken("token", parsed), UserInfo(<<>>, ""), trace)

\* What a request context can hold under TokenContextKey: nothing, a value that is
\* no jwt.Token, a token whose kubernetes.io claim is missing or of another type,
\* or a token with the claim
Contexts ==
    { NoContextToken,
      [kind |-> "string", hasK8s |-> FALSE, k8s |-> ZeroKubernetesIoClaim],
      [kind |-> "token", hasK8s |-> FALSE, k8s |-> ZeroKubernetesIoClaim] }
    \cup { [kind |-> "token", hasK8s |-> TRUE, k8s |-> KubernetesIoClaim(ns, n)] :
             ns \in Namespaces, n \in ServiceAccountNames \cup {<<>>} }

\* UserContext reading the annotation without testing that it is there
UserContextUncheckedGroup(ctx, sa) ==
    IF ctx.kind # "token"
    THEN Chained(FALSE,
                 HttpResponse(StatusInternalServerError, <<"failed to retrieve token from context">>,
                              NoCredential),
                 ctx, UserInfo(<<>>, ""), <<>>)
    ELSE LET got == TokenGetK8s(ctx)
             trace == <<Call("getServiceAccount", got.k8s.ServiceAccountName,
                             got.k8s.Namespace, sa)>>
         IN  IF got.err.isErr
             THEN Chained(FALSE,
                          HttpResponse(StatusInternalServerError, <<"incorrect token format">>,
                                       NoCredential),
                          ctx, UserInfo(<<>>, ""), <<>>)
             ELSE IF sa.failed
             THEN Chained(FALSE,
                          HttpResponse(StatusInternalServerError,
                                       <<"could not find associated service account">>, NoCredential),
                          ctx, UserInfo(<<>>, ""), trace)
             ELSE Chained(TRUE, NoResponse, ctx,
                          UserInfo(TrimPrefix(got.k8s.Namespace, UserNamespacePrefixMw),
                                   IF DaplaGroupAnnotation \in DOMAIN sa.annotations
                                   THEN sa.annotations[DaplaGroupAnnotation] ELSE ""),
                          trace)

\* middleware.UserContext
UserContext(ctx, sa) ==
    IF ctx.kind # "token"
    THEN Chained(FALSE,
                 HttpResponse(StatusInternalServerError, <<"failed to retrieve token from context">>,
                              NoCredential),
                 ctx, UserInfo(<<>>, ""), <<>>)
    ELSE LET got == TokenGetK8s(ctx)
             trace == <<Call("getServiceAccount", got.k8s.ServiceAccountName,
                             got.k8s.Namespace, sa)>>
         IN  IF got.err.isErr
             THEN Chained(FALSE,
                          HttpResponse(StatusInternalServerError, <<"incorrect token format">>,
                                       NoCredential),
                          ctx, UserInfo(<<>>, ""), <<>>)
             ELSE IF sa.failed
             THEN Chained(FALSE,
                          HttpResponse(StatusInternalServerError,
                                       <<"could not find associated service account">>, NoCredential),
                          ctx, UserInfo(<<>>, ""), trace)
             ELSE IF DaplaGroupAnnotation \notin DOMAIN sa.annotations
             THEN Chained(FALSE,
                          HttpResponse(StatusInternalServerError,
                                       <<"service account is not associated with any group">>,
                                       NoCredential),
                          ctx, UserInfo(<<>>, ""), trace)
             ELSE Chained(TRUE, NoResponse, ctx,
                          UserInfo(TrimPrefix(got.k8s.Namespace, UserNamespacePrefixMw),
                                   sa.annotations[DaplaGroupAnnotation]),
                          trace)

\* signedJwtCreator.NewToken
NewToken(c, username, group, now1, now2, signing) ==
    LET b1 == [EmptyBuilder EXCEPT !.has = {"sub", "group", "exp", "iat"}, !.sub = username,
                                   !.group = group, !.exp = now1 + c.Expiry, !.iat = now2]
        b2 == IF c.Issuer # "" THEN [b1 EXCEPT !.has = @ \cup {"iss"}, !.iss = c.Issuer] ELSE b1
    IN  IF signing = "buildErr"
        THEN IssueResult(NoCredential, NewError("jwt: build failed"), BuildAndSign(signing))
        ELSE IF signing = "signErr"
        THEN IssueResult(NoCredential, NewError("jwt: sign failed"), BuildAndSign(signing))
        ELSE IssueResult(Sign(b2, c.SigningKey), NoError, BuildAndSign(signing))

\* NewSignedJwtCreator(privateKey): its defaults
SignedJwtCreator == [Issuer |-> "labid", Expiry |-> Hour, SigningKey |-> "labid-key"]

\* handler.GetToken
GetToken(hasUserInfo, ui, now1, now2, signing) ==
    IF ~hasUserInfo
    THEN [res |-> HttpResponse(StatusInternalServerError, <<"incorrect userinfo type">>, NoCredential),
          calls |-> <<>>]
    ELSE LET issued == NewToken(SignedJwtCreator, ui.Name, ui.Group, now1, now2, signing)
         IN  IF issued.err.isErr
             THEN [res |-> HttpResponse(StatusInternalServerError, <<"error creating token">>,
                                        NoCredential),
                   calls |-> issued.calls]
             ELSE [res |-> HttpResponse(StatusOK, <<"token">>, issued.token), calls |-> issued.calls]

(***************************************************************************)
(* Startup: main, ParseRsaKeyPair, CachedJwksGetter                        *)
(***************************************************************************)
\* The bytes of the private key file: whether they PEM-decode, whether the block
\* parses as PKCS8, the family of the key inside, and the key's thumbprint
KeyMaterial(pem, pkcs8, family, kid) ==
    [pem |-> pem, pkcs8 |-> pkcs8, family |-> family, kid |-> kid]

KeyMaterials ==
    { KeyMaterial(FALSE, FALSE, "none", ""),
      KeyMaterial(TRUE, FALSE, "none", ""),
      KeyMaterial(TRUE, FALSE, "RSA", "rsa-1"),
      KeyMaterial(TRUE, TRUE, "EC", "ec-1"),
      KeyMaterial(TRUE, TRUE, "Ed25519", "ed-1"),
      KeyMaterial(TRUE, TRUE, "RSA", "rsa-1") }

\* os.ReadFile(cfg.PrivateKeyFile): an error, or the bytes
KeyFile(read, raw) == [read |-> read, raw |-> raw]

KeyFiles ==
    { KeyFile(FALSE, KeyMaterial(FALSE, FALSE, "none", "")) }
    \cup { KeyFile(TRUE, m) : m \in KeyMaterials }

\* a jwk.Key: key id, alg, use, and whether it holds the private part
Jwk(kid, alg, use, private) == [kid |-> kid, alg |-> alg, use |-> use, private |-> private]

NoKey == Jwk("", "", "", FALSE)

KeyPair(private, public, err) == [private |-> private, public |-> public, err |-> err]

\* ParseRsaKeyPair taking the public key before the key id is assigned
ParseRsaKeyPairPublicFirst(rawPrivateKey) ==
    IF ~rawPrivateKey.pem
    THEN KeyPair(NoKey, NoKey, NewError("unable to decode private key"))
    ELSE IF ~rawPrivateKey.pkcs8
    THEN KeyPair(NoKey, NoKey, Wrap("parse private key: ", NewError("x509: failed to parse private key")))
    ELSE IF rawPrivateKey.family # "RSA"
    THEN KeyPair(NoKey, NoKey, NewError("unexpected private key type, must be RSA"))
    ELSE KeyPair(Jwk(rawPrivateKey.kid, "RS256", "sig", TRUE),
                 Jwk("", "", "", FALSE),
                 NoError)

\* ParseRsaKeyPair without the test of the key's type
ParseRsaKeyPairAnyFamily(rawPrivateKey) ==
    IF ~rawPrivateKey.pem
    THEN KeyPair(NoKey, NoKey, NewError("unable to decode private key"))
    ELSE IF ~rawPrivateKey.pkcs8
    THEN KeyPair(NoKey, NoKey, Wrap("parse private key: ", NewError("x509: failed to parse private key")))
    ELSE KeyPair(Jwk(rawPrivateKey.kid, "RS256", "sig", TRUE),
                 Jwk(rawPrivateKey.kid, "RS256", "sig", FALSE),
                 NoError)

\* ParseRsaKeyPair
ParseRsaKeyPair(rawPrivateKey) ==
    IF ~rawPrivateKey.pem
    THEN KeyPair(NoKey, NoKey, NewError("unable to decode private key"))
    ELSE IF ~rawPrivateKey.pkcs8
    THEN KeyPair(NoKey, NoKey, Wrap("parse private key: ", NewError("x509: failed to parse private key")))
    ELSE IF rawPrivateKey.family # "RSA"
    THEN KeyPair(NoKey, NoKey, NewError("unexpected private key type, must be RSA"))
    ELSE KeyPair(Jwk(rawPrivateKey.kid, "RS256", "sig", TRUE),
                 Jwk(rawPrivateKey.kid, "RS256", "sig", FALSE),
                 NoError)

\* jwk.Cache for the external key set: whether it holds a key set, the key set,
\* and whether the last refresh failed
JwkCache(ready, keys, stale) == [ready |-> ready, keys |-> keys, stale |-> stale]

NoJwkCache == JwkCache(FALSE, {}, FALSE)

\* jwksCache.Lookup: the cached key set, or an error
Lookup(cache, answered) ==
    IF answered /\ cache.ready THEN [ok |-> TRUE, keys |-> cache.keys]
    ELSE [ok |-> FALSE, keys |-> {}]

\* CachedJwksGetter returning the getter after Register, without trying it once
CachedJwksGetterUntried(registered, fetch) ==
    IF ~registered
    THEN [cache |-> NoJwkCache,
          err |-> Wrap("register external jwks in cache: ", NewError("register failed"))]
    ELSE [cache |-> IF fetch.ok THEN JwkCache(TRUE, fetch.keys, FALSE) ELSE NoJwkCache,
          err |-> NoError]

\* CachedJwksGetter: Register, then one Lookup that must succeed
CachedJwksGetter(registered, fetch) ==
    IF ~registered
    THEN [cache |-> NoJwkCache,
          err |-> Wrap("register external jwks in cache: ", NewError("register failed"))]
    ELSE IF ~fetch.ok
    THEN [cache |-> NoJwkCache,
          err |-> Wrap("validate jwks getter: ", NewError("jwks source unavailable"))]
    ELSE [cache |-> JwkCache(TRUE, fetch.keys, FALSE), err |-> NoError]

\* What main was given and how it ended
Boot(ran, file, registered, fetch, clientOk, err) ==
    [ran |-> ran, file |-> file, registered |-> registered, fetch |-> fetch,
     clientOk |-> clientOk, err |-> err]

NotBooted ==
    Boot(FALSE, KeyFile(FALSE, KeyMaterial(FALSE, FALSE, "none", "")), FALSE,
         [ok |-> FALSE, keys |-> {}], FALSE, NoError)

Started(serving, c, published, cache, err) ==
    [serving |-> serving, cfg |-> c, localJwks |-> published, cache |-> cache, err |-> err]

\* main up to http.ListenAndServe: errorAndExit at the first failing step
Main(settings, file, registered, fetch, clientOk) ==
    LET pair == ParseRsaKeyPair(file.raw)
        getter == CachedJwksGetter(registered, fetch)
        exit(e) == Started(FALSE, settings, {}, NoJwkCache, e)
    IN  IF ~file.read
        THEN exit(Wrap("read private signing key file: ", NewError("open: no such file")))
        ELSE IF pair.err.isErr
        THEN exit(Wrap("parse RSA keypair: ", pair.err))
        ELSE IF getter.err.isErr
        THEN exit(Wrap("create cached jwks getter: ", getter.err))
        ELSE IF ~clientOk
        THEN exit(Wrap("initialize kubernetes client: ", NewError("no configuration")))
        ELSE Started(TRUE, [settings EXCEPT !.SigningKey = pair.private.kid],
                     {pair.public}, getter.cache, NoError)

\* net/http on the first Write without a Content-Type header: http.DetectContentType.
\* Only markup, images and the like are recognised; JSON text is sniffed as plain text.
DetectContentType(body) ==
    IF body # <<>> /\ Head(body) \in {"<html", "<!DOCTYPE HTML"}
    THEN "text/html; charset=utf-8"
    ELSE "text/plain; charset=utf-8"

\* w.Write(body) by a handler that set no header
Written(body) ==
    [Response("http", StatusOK, "", TRUE, body, NoError, NoCredential, 0)
        EXCEPT !.contentType = DetectContentType(body)]

\* WellKnown(host): the handler writes the marshalled metadata
WellKnown(host) ==
    Written(<<"{", "claims_supported", "issuer", host, "jwks_uri", host, "/jwks",
              "scopes_supported", "token_endpoint", host, "/token", "}">>)

\* Jwks(s): the handler writes the marshalled key set
Jwks(s) == Written(<<"{", "keys", s, "}">>)

(***************************************************************************)
(* State machine                                                           *)
(***************************************************************************)
\* issuer: the host of the service, or "" (NewSignedJwtIssuer takes any string)
Issuers == {"", "https://labid.example"}

\* Expiry: time.Hour unless an option of NewSignedJwtIssuer sets another lifetime
Expiries == {Hour, Hour \div 2}

\* The settings of main: current-group populator always, the team api client when
\* TEAM_API_URL is set, HOST as issuer, the default lifetime; no signing key yet
DefaultConfig ==
    [PopulateCurrentGroup |-> TRUE, PopulateAllGroups |-> "teamapi",
     Issuer |-> "https://labid.example", Expiry |-> Hour, SigningKey |-> ""]

\* The default, and what NewTokenHandler and NewSignedJwtIssuer accept besides it,
\* one setting changed at a time
Configs ==
    { [DefaultConfig EXCEPT !.PopulateAllGroups = p] : p \in {"nil", "teamapi", "daplaapi"} }
    \cup { [DefaultConfig EXCEPT !.Issuer = i] : i \in Issuers }
    \cup { [DefaultConfig EXCEPT !.Expiry = e] : e \in Expiries }

Init ==
    /\ cfg \in Configs
    /\ boot = NotBooted
    /\ localJwks = {}
    /\ jwksCache = NoJwkCache
    /\ pc = "start"
    /\ op = "none"
    /\ req = NilRequest
    /\ loc = NoLocals
    /\ mw = [ctx |-> NoContextToken, hasUserInfo |-> FALSE, ui |-> UserInfo(<<>>, "")]
    /\ calls = <<>>
    /\ logged = <<>>
    /\ out = NoResponse
    /\ issuances = <<>>
    /\ inflight = <<>>

\* main runs: the service listens, or the process exits with the error logged
MainRun(file, registered, fetch, clientOk) ==
    /\ pc = "start"
    /\ LET m == Main(cfg, file, registered, fetch, clientOk)
       IN  /\ boot' = Boot(TRUE, file, registered, fetch, clientOk, m.err)
           /\ cfg' = m.cfg
           /\ localJwks' = m.localJwks
           /\ jwksCache' = m.cache
           /\ logged' = IF m.serving THEN logged ELSE logged \o <<m.err.text>>
           /\ pc' = IF m.serving THEN "idle" ELSE "exited"
    /\ UNCHANGED <<op, req, loc, mw, calls, out, issuances, inflight>>

\* The cache refreshes the registered key set in the background: a fetched key set
\* replaces the cached one, a failed fetch leaves the cached one in place
RefreshJwks(fetch) ==
    /\ pc = "idle"
    /\ jwksCache.ready
    /\ jwksCache' = IF fetch.ok THEN JwkCache(TRUE, fetch.keys, FALSE)
                    ELSE [jwksCache EXCEPT !.stale = TRUE]
    /\ jwksCache' # jwksCache
    /\ UNCHANGED <<cfg, boot, localJwks, pc, op, req, loc, mw, calls, logged, out, issuances, inflight>>

\* A request reaches ExchangeToken, which runs up to its call of IssueToken
ExchangeToken(r, jwks) ==
    /\ pc = "idle"
    /\ LET c == ExchangeTokenCollect(cfg, r, jwks)
       IN  /\ op' = "ExchangeToken"
           /\ req' = r
           /\ loc' = c.loc
           /\ calls' = c.calls
           /\ out' = c.res
           /\ pc' = IF c.returned THEN "done" ELSE "issue"
    /\ UNCHANGED <<issuances, inflight, cfg, boot, localJwks, jwksCache, logged, mw>>

\* The mapper loop going on to the next mapper after one failed
IssueTokenMapperContinuing(m, r) ==
    /\ calls' = calls \o r.calls
    /\ loc' = IF r.err.isErr
              THEN [loc EXCEPT !.mapperErr = r.err, !.idx = @ + 1]
              ELSE [loc EXCEPT !.builder = r.builder, !.idx = @ + 1]
    /\ UNCHANGED <<logged, out, pc>>
    /\ UNCHANGED <<issuances, inflight, cfg, boot, localJwks, jwksCache, op, req, mw>>

\* One turn of IssueToken's mapper loop; a failing mapper ends IssueToken and the exchange
IssueTokenMapper(m, r) ==
    /\ calls' = calls \o r.calls
    /\ IF r.err.isErr
       THEN LET done == ExchangeTokenRespond(IssueResult(NoCredential, r.err, <<>>))
            IN  /\ loc' = [loc EXCEPT !.mapperErr = r.err]
                /\ logged' = logged \o done.logs
                /\ out' = done.res
                /\ pc' = "done"
       ELSE /\ loc' = [loc EXCEPT !.builder = r.builder, !.idx = @ + 1]
            /\ UNCHANGED <<logged, out, pc>>
    /\ UNCHANGED <<issuances, inflight, cfg, boot, localJwks, jwksCache, op, req, mw>>

IssueTokenCurrentGroup(sa) ==
    /\ pc = "issue"
    /\ loc.idx <= Len(loc.mappers)
    /\ loc.mappers[loc.idx].kind = "current_group"
    /\ LET m == loc.mappers[loc.idx]
       IN  IssueTokenMapper(m, CurrentGroupMapper(m.name, m.namespace, loc.builder, sa))

IssueTokenAllGroups(d) ==
    /\ pc = "issue"
    /\ loc.idx <= Len(loc.mappers)
    /\ loc.mappers[loc.idx].kind = "all_groups"
    /\ LET m == loc.mappers[loc.idx]
       IN  IssueTokenMapper(m, AllGroupsPopulator(cfg.PopulateAllGroups, m.username, loc.builder, d))

\* The rest of IssueToken, and ExchangeToken's answer
IssueTokenFinish(now1, now2, signing) ==
    /\ pc = "issue"
    /\ loc.idx > Len(loc.mappers)
    /\ LET issued == IssueTokenSign(cfg, loc.builder, loc.username, req.Audience,
                                    loc.scopes, now1, now2, signing)
           done == ExchangeTokenRespond(issued)
       IN  /\ calls' = calls \o issued.calls
           /\ logged' = logged \o done.logs
           /\ out' = done.res
           /\ pc' = "done"
    /\ UNCHANGED <<issuances, inflight, cfg, boot, localJwks, jwksCache, op, req, loc, mw>>

LegacyRequest(authHeader) == [Authorization |-> authHeader]

\* GET /token reaches JwkSetValidator
JwkSetValidatorServe(authHeader, jwks) ==
    /\ pc = "idle"
    /\ LET c == JwkSetValidator(authHeader, jwks)
       IN  /\ op' = "GetToken"
           /\ req' = LegacyRequest(authHeader)
           /\ mw' = [ctx |-> c.ctx, hasUserInfo |-> FALSE, ui |-> c.ui]
           /\ calls' = c.calls
           /\ out' = c.res
           /\ pc' = IF c.next THEN "UserContext" ELSE "done"
    /\ UNCHANGED <<issuances, inflight, cfg, boot, localJwks, jwksCache, loc, logged>>

\* next.ServeHTTP of JwkSetValidator: UserContext
UserContextServe(sa) ==
    /\ pc = "UserContext"
    /\ LET c == UserContext(mw.ctx, sa)
       IN  /\ mw' = [mw EXCEPT !.hasUserInfo = c.next, !.ui = c.ui]
           /\ calls' = calls \o c.calls
           /\ out' = c.res
           /\ pc' = IF c.next THEN "GetToken" ELSE "done"
    /\ UNCHANGED <<issuances, inflight, cfg, boot, localJwks, jwksCache, op, req, loc, logged>>

\* next.ServeHTTP of UserContext: GetToken
GetTokenServe(now1, now2, signing) ==
    /\ pc = "GetToken"
    /\ LET c == GetToken(mw.hasUserInfo, mw.ui, now1, now2, signing)
       IN  /\ calls' = calls \o c.calls
           /\ out' = c.res
           /\ pc' = "done"
    /\ UNCHANGED <<issuances, inflight, cfg, boot, localJwks, jwksCache, op, req, loc, logged, mw>>

\* UserContext serving a request of its own, whatever the context holds; the
\* handler after it is called or not
UserContextRequest(ctx, sa) ==
    /\ pc = "idle"
    /\ LET c == UserContext(ctx, sa)
       IN  /\ op' = "UserContext"
           /\ mw' = [ctx |-> ctx, hasUserInfo |-> c.next, ui |-> c.ui]
           /\ calls' = IF c.next
                       THEN c.calls \o <<Call("next.ServeHTTP", c.ui.Name, <<c.ui.Group>>,
                                              [ok |-> TRUE])>>
                       ELSE c.calls
           /\ out' = c.res
           /\ pc' = "done"
    /\ UNCHANGED <<issuances, inflight, cfg, boot, localJwks, jwksCache, req, loc, logged>>

\* GET /.well-known/openid-configuration
WellKnownServe ==
    /\ pc = "idle"
    /\ op' = "WellKnown"
    /\ out' = WellKnown(cfg.Issuer)
    /\ pc' = "done"
    /\ UNCHANGED <<issuances, inflight, cfg, boot, localJwks, jwksCache, req, loc, mw, calls, logged>>

\* GET /jwks
JwksServe ==
    /\ pc = "idle"
    /\ op' = "Jwks"
    /\ out' = Jwks(localJwks)
    /\ pc' = "done"
    /\ UNCHANGED <<issuances, inflight, cfg, boot, localJwks, jwksCache, req, loc, mw, calls, logged>>

\* any request, with the key set of the cache or an error of the getter
ExchangeTokenRequest ==
    pc = "idle" /\ \E r \in Requests, answered \in BOOLEAN :
                      ExchangeToken(r, Lookup(jwksCache, answered))

Next ==
    \/ \E file \in KeyFiles, registered \in BOOLEAN, fetch \in JwksOutcomes, clientOk \in BOOLEAN :
          MainRun(file, registered, fetch, clientOk)
    \/ \E fetch \in JwksOutcomes : RefreshJwks(fetch)
    \/ WellKnownServe
    \/ JwksServe
    \/ \E ctx \in Contexts, sa \in SaOutcomes : UserContextRequest(ctx, sa)
    \/ ExchangeTokenRequest
    \/ \E sa \in SaOutcomes : IssueTokenCurrentGroup(sa)
    \/ \E d \in DirOutcomes : IssueTokenAllGroups(d)
    \/ \E now2 \in 0..MaxClock, signing \in SignOutcomes : IssueTokenFinish(0, now2, signing)
    \/ \E h \in AuthHeaders, answered \in BOOLEAN :
          JwkSetValidatorServe(h, Lookup(jwksCache, answered))
    \/ \E sa \in SaOutcomes : UserContextServe(sa)
    \/ \E now2 \in 0..MaxClock, signing \in SignOutcomes : GetTokenServe(0, now2, signing)

Spec == Init /\ [][Next]_vars

(***************************************************************************)
(* IssueToken called on its own                                            *)
(*                                                                         *)
(* A caller holds the issuer main built and calls IssueToken with mappers  *)
(* of its choice, then once more with the same arguments, the mappers in   *)
(* the same or in the opposite order, the resolvers answering as before.   *)
(***************************************************************************)
Reverse(s) == [i \in 1..Len(s) |-> s[Len(s) + 1 - i]]

\* the mappers a caller passes: the two populators of ExchangeToken for kari and
\* a mapper of its own, each at most once, at most two, in any order
CallerMappers ==
    { Mapper("current_group", <<"sa">>, <<"user-ssb-", "kari">>, <<>>),
      Mapper("all_groups", <<>>, <<>>, <<"kari">>),
      Mapper("foreign", <<>>, <<>>, <<>>) }

MapperLists ==
    { ms \in SeqsUpTo(CallerMappers, 2) : \A i, j \in 1..Len(ms) : i # j => ms[i] # ms[j] }

CallerScopes == { << <<"current_group">>, <<"all_groups">> >> }

CallerDirOutcomes ==
    { d \in DirOutcomes : d.transport = "error" \/ d.status = StatusNotFound
                           \/ (d.decodable /\ d.groups = <<"g1", "g2">>) }

IssueCall(audience, scopes, mappers, sa, d, now1, now2, signing, res) ==
    [username |-> <<"kari">>, audience |-> audience, scopes |-> scopes, mappers |-> mappers,
     sa |-> sa, d |-> d, now1 |-> now1, now2 |-> now2, signing |-> signing, res |-> res]

\* main with a sound key file, a key source that answers and a cluster client
SoundKeyFile == KeyFile(TRUE, KeyMaterial(TRUE, TRUE, "RSA", "rsa-1"))

FirstKeySet == [ok |-> TRUE, keys |-> {"k1"}]

InitIssuer ==
    /\ \E c \in Configs :
          LET m == Main(c, SoundKeyFile, TRUE, FirstKeySet, TRUE)
          IN  /\ cfg = m.cfg
              /\ localJwks = m.localJwks
              /\ jwksCache = m.cache
    /\ boot = Boot(TRUE, SoundKeyFile, TRUE, FirstKeySet, TRUE, NoError)
    /\ pc = "idle"
    /\ op = "IssueToken"
    /\ req = NilRequest
    /\ loc = NoLocals
    /\ mw = [ctx |-> NoContextToken, hasUserInfo |-> FALSE, ui |-> UserInfo(<<>>, "")]
    /\ calls = <<>>
    /\ logged = <<>>
    /\ out = NoResponse
    /\ issuances = <<>>
    /\ inflight = <<>>

\* the first call of IssueToken
IssueTokenCall(audience, scopes, mappers, sa, d, now2, signing) ==
    /\ issuances = <<>>
    /\ issuances' = <<IssueCall(audience, scopes, mappers, sa, d, 0, now2, signing,
                                IssueToken(cfg, <<"kari">>, audience, scopes, mappers,
                                           sa, d, 0, now2, signing))>>
    /\ UNCHANGED <<cfg, boot, localJwks, jwksCache, pc, op, req, loc, mw, calls, logged, out,
                   inflight>>

\* the second call: the arguments, the resolvers' answers and the signer as in the
\* first call, the clock read at the same instant
IssueTokenAgain(reversed, now2) ==
    /\ Len(issuances) = 1
    /\ LET first == issuances[1]
           mappers == IF reversed THEN Reverse(first.mappers) ELSE first.mappers
       IN  issuances' = issuances \o
               <<IssueCall(first.audience, first.scopes, mappers, first.sa, first.d,
                           first.now1, now2, first.signing,
                           IssueToken(cfg, first.username, first.audience, first.scopes, mappers,
                                      first.sa, first.d, first.now1, now2, first.signing))>>
    /\ UNCHANGED <<cfg, boot, localJwks, jwksCache, pc, op, req, loc, mw, calls, logged, out,
                   inflight>>

NextIssuer ==
    \/ \E audience \in Audiences, scopes \in CallerScopes, mappers \in MapperLists,
          sa \in SaOutcomes, d \in CallerDirOutcomes, now2 \in 0..MaxClock,
          signing \in SignOutcomes :
          IssueTokenCall(audience, scopes, mappers, sa, d, now2, signing)
    \/ \E reversed \in BOOLEAN, now2 \in 0..MaxClock : IssueTokenAgain(reversed, now2)

SpecIssuer == InitIssuer /\ [][NextIssuer]_vars

(***************************************************************************)
(* Concurrent exchanges                                                    *)
(*                                                                         *)
(* Two requests are served at once, each by its own call of ExchangeToken  *)
(* with its own locals and its own context, which its caller may cancel.   *)
(* They share the handler, the issuer and the key-set cache, which the     *)
(* cache refreshes meanwhile. An upstream call that is given the request's *)
(* context fails once the context is cancelled; a call made without it     *)
(* goes on and answers.                                                    *)
(***************************************************************************)
Users == <<"kari", "ola">>

ConcurrentScopes ==
    { <<"current_group">>, <<"all_groups">>, <<"current_group", ",", "all_groups">> }

\* the requests of the i-th caller: a sound token of its own namespace
ConcurrentRequests(i) ==
    { Request(GrantTypeTokenExchange, SubjectTokenTypeIdToken,
              RawToken("jws", "k1", "none",
                       EmbeddedClaim("object", {"namespace", "serviceaccount"},
                                     <<"user-ssb-", Users[i]>>, <<"sa">>)),
              TRUE, sc, <<>>) : sc \in ConcurrentScopes }

\* what the cluster and the directory answer about the i-th caller: an error, or
\* its group, and its groups
UserGroup == <<"g1", "g2">>

UserGroups == << <<"g1", "g2">>, <<"g2", "g1">> >>

ConcurrentSaOutcomes(i) ==
    { sa \in SaOutcomes :
        \/ sa.failed
        \/ DaplaGroupAnnotation \in DOMAIN sa.annotations
           /\ sa.annotations[DaplaGroupAnnotation] = UserGroup[i] }

ConcurrentDirOutcomes(i) ==
    { d \in DirOutcomes : d.transport = "error" \/ (d.decodable /\ d.groups = UserGroups[i]) }

ConcurrentSignOutcomes == SignOutcomes \ {"buildErr"}

\* jwksCache.Lookup(ctx, jwksUri)
LookupCtx(ctx, jwks) == IF ctx = "cancelled" THEN [ok |-> FALSE, keys |-> {}] ELSE jwks

\* clientset.CoreV1().ServiceAccounts(namespace).Get(ctx, name, ...)
GetSaCtx(ctx, sa) == IF ctx = "cancelled" THEN SaOutcome(TRUE, [k \in {} |-> ""]) ELSE sa

\* the team api client calls httpClient.Get(endpoint), without a context; the
\* dapla api client calls graphqlClient.Query(ctx, ...)
ListGroupsCtx(impl, ctx, d) ==
    IF impl = "daplaapi" /\ ctx = "cancelled" THEN DirOutcome("error", 0, FALSE, <<>>) ELSE d

\* what the upstreams and the signer answered to one request
Saw(jwks, sa, d, signing) == [jwks |-> jwks, sa |-> sa, d |-> d, signing |-> signing]

NothingSeen ==
    Saw([ok |-> FALSE, keys |-> {}], SaOutcome(TRUE, [k \in {} |-> ""]),
        DirOutcome("error", 0, FALSE, <<>>), "ok")

\* one request: where its handler stands, its locals, its calls, its answer, what
\* it logged, its context, and how many calls had returned when it was cancelled
InFlight(at, r, locals, trace, res, logs, ctx, before, saw) ==
    [pc |-> at, req |-> r, loc |-> locals, calls |-> trace, out |-> res, logged |-> logs,
     ctx |-> ctx, before |-> before, saw |-> saw]

NotReceived == InFlight("idle", NilRequest, NoLocals, <<>>, NoResponse, <<>>, "live", 0, NothingSeen)

InitConcurrent ==
    /\ \E c \in { k \in Configs : k.PopulateAllGroups # "nil" /\ k.Expiry = Hour /\ k.Issuer # "" } :
          LET m == Main(c, SoundKeyFile, TRUE, FirstKeySet, TRUE)
          IN  /\ cfg = m.cfg
              /\ localJwks = m.localJwks
              /\ jwksCache = m.cache
    /\ boot = Boot(TRUE, SoundKeyFile, TRUE, FirstKeySet, TRUE, NoError)
    /\ pc = "idle"
    /\ op = "none"
    /\ req = NilRequest
    /\ loc = NoLocals
    /\ mw = [ctx |-> NoContextToken, hasUserInfo |-> FALSE, ui |-> UserInfo(<<>>, "")]
    /\ calls = <<>>
    /\ logged = <<>>
    /\ out = NoResponse
    /\ issuances = <<>>
    /\ inflight = [i \in 1..2 |-> NotReceived]

\* the i-th request reaches ExchangeToken, which runs up to its call of IssueToken
Receive(i, r, answered) ==
    /\ inflight[i].pc = "idle"
    /\ LET me == inflight[i]
           jwks == LookupCtx(me.ctx, Lookup(jwksCache, answered))
           c == ExchangeTokenCollect(cfg, r, jwks)
       IN  inflight' = [inflight EXCEPT ![i] =
               [me EXCEPT !.pc = IF c.returned THEN "done" ELSE "issue",
                          !.req = r, !.loc = c.loc, !.calls = c.calls, !.out = c.res,
                          !.saw.jwks = jwks]]
    /\ UNCHANGED <<cfg, boot, localJwks, jwksCache, pc, op, req, loc, mw, calls, logged, out,
                   issuances>>

\* the caller of the i-th request cancels it
Cancel(i) ==
    /\ inflight[i].pc \in {"idle", "issue"}
    /\ inflight[i].ctx = "live"
    /\ inflight' = [inflight EXCEPT ![i].ctx = "cancelled", ![i].before = Len(inflight[i].calls)]
    /\ UNCHANGED <<cfg, boot, localJwks, jwksCache, pc, op, req, loc, mw, calls, logged, out,
                   issuances>>

\* one turn of the mapper loop of the request me, the mapper having returned r
MapperTurn(me, r) ==
    IF r.err.isErr
    THEN LET done == ExchangeTokenRespond(IssueResult(NoCredential, r.err, <<>>))
         IN  [me EXCEPT !.calls = @ \o r.calls, !.loc.mapperErr = r.err,
                        !.logged = @ \o done.logs, !.out = done.res, !.pc = "done"]
    ELSE [me EXCEPT !.calls = @ \o r.calls, !.loc.builder = r.builder, !.loc.idx = @ + 1]

CurrentGroupTurn(i, sa) ==
    /\ inflight[i].pc = "issue"
    /\ inflight[i].loc.idx <= Len(inflight[i].loc.mappers)
    /\ inflight[i].loc.mappers[inflight[i].loc.idx].kind = "current_group"
    /\ LET me == inflight[i]
           m == me.loc.mappers[me.loc.idx]
           got == GetSaCtx(me.ctx, sa)
       IN  inflight' = [inflight EXCEPT ![i] =
               [MapperTurn(me, CurrentGroupMapper(m.name, m.namespace, me.loc.builder, got))
                   EXCEPT !.saw.sa = got]]
    /\ UNCHANGED <<cfg, boot, localJwks, jwksCache, pc, op, req, loc, mw, calls, logged, out,
                   issuances>>

AllGroupsTurn(i, d) ==
    /\ inflight[i].pc = "issue"
    /\ inflight[i].loc.idx <= Len(inflight[i].loc.mappers)
    /\ inflight[i].loc.mappers[inflight[i].loc.idx].kind = "all_groups"
    /\ LET me == inflight[i]
           m == me.loc.mappers[me.loc.idx]
           got == ListGroupsCtx(cfg.PopulateAllGroups, me.ctx, d)
       IN  inflight' = [inflight EXCEPT ![i] =
               [MapperTurn(me, AllGroupsPopulator(cfg.PopulateAllGroups, m.username,
                                                  me.loc.builder, got))
                   EXCEPT !.saw.d = got]]
    /\ UNCHANGED <<cfg, boot, localJwks, jwksCache, pc, op, req, loc, mw, calls, logged, out,
                   issuances>>

\* the rest of IssueToken and the answer of ExchangeToken for the i-th request
Finish(i, signing) ==
    /\ inflight[i].pc = "issue"
    /\ inflight[i].loc.idx > Len(inflight[i].loc.mappers)
    /\ LET me == inflight[i]
           signed == IssueTokenSign(cfg, me.loc.builder, me.loc.username, me.req.Audience,
                                    me.loc.scopes, 0, 0, signing)
           done == ExchangeTokenRespond(signed)
       IN  inflight' = [inflight EXCEPT ![i] =
               [me EXCEPT !.calls = @ \o signed.calls, !.logged = @ \o done.logs,
                          !.out = done.res, !.pc = "done", !.saw.signing = signing]]
    /\ UNCHANGED <<cfg, boot, localJwks, jwksCache, pc, op, req, loc, mw, calls, logged, out,
                   issuances>>

NextConcurrent ==
    \/ \E i \in 1..2, answered \in BOOLEAN : \E r \in ConcurrentRequests(i) : Receive(i, r, answered)
    \/ \E i \in 1..2 : Cancel(i)
    \/ \E i \in 1..2 : \E sa \in ConcurrentSaOutcomes(i) : CurrentGroupTurn(i, sa)
    \/ \E i \in 1..2 : \E d \in ConcurrentDirOutcomes(i) : AllGroupsTurn(i, d)
    \/ \E i \in 1..2, signing \in ConcurrentSignOutcomes : Finish(i, signing)
    \/ \E fetch \in JwksOutcomes : RefreshJwks(fetch)

SpecConcurrent == InitConcurrent /\ [][NextConcurrent]_vars

(***************************************************************************)
(* Vocabulary of the properties                                            *)
(***************************************************************************)
Exchange == op = "ExchangeToken"

Legacy == op = "GetToken"

Done == pc = "done"

\* a credential left the service in the response
CredentialIssued == out.token.signed

Called(fn) == \E i \in 1..Len(calls) : calls[i].fn = fn

CallsOf(fn) == { i \in 1..Len(calls) : calls[i].fn = fn }

\* the request asked for scope name: name stands between commas or the string's ends
ScopeRequested(r, name) ==
    /\ ~r.isNil
    /\ r.hasScope
    /\ \E i \in 1..Len(r.Scope) :
          /\ r.Scope[i] = name
          /\ (i = 1 \/ r.Scope[i - 1] = ",")
          /\ (i = Len(r.Scope) \/ r.Scope[i + 1] = ",")

\* the subject token is a sound JWS with a complete kubernetes.io claim
SoundToken(t) ==
    /\ t.form = "jws"
    /\ t.defect = "none"
    /\ t.k8s.shape = "object"
    /\ t.k8s.fields = {"namespace", "serviceaccount"}

\* the key source answered with a key set holding the token's key
KeyKnown(t) == \E i \in CallsOf("Jwks.Get") : calls[i].ret.ok /\ t.key \in calls[i].ret.keys

KeyUnknown(t) == \E i \in CallsOf("Jwks.Get") : calls[i].ret.ok /\ t.key \notin calls[i].ret.keys

StartsWithPrefix(ns) == Len(ns) >= 1 /\ ns[1] = "user-ssb-"

(***************************************************************************)
(* C1: no credential is issued for a validated identity whose namespace    *)
(* does not start with "user-ssb-", on the ExchangeToken path and on the   *)
(* JwkSetValidator -> UserContext -> GetToken path alike.                  *)
(***************************************************************************)
C1_NoCredentialOutsidePrefix ==
    CredentialIssued =>
        /\ Exchange => StartsWithPrefix(loc.claim.Namespace)
        /\ Legacy => StartsWithPrefix(mw.ctx.k8s.Namespace)

(***************************************************************************)
(* C2: an exchange request with a wrong grant type, a wrong subject token  *)
(* type or no subject token is answered 400 invalid_request, and neither   *)
(* the parser, nor a resolver, nor the issuer is called for it.            *)
(***************************************************************************)
Malformed(r) ==
    /\ ~r.isNil
    /\ \/ r.GrantType # GrantTypeTokenExchange
       \/ r.SubjectTokenType # SubjectTokenTypeIdToken
       \/ r.SubjectToken = EmptyToken

C2_MalformedRejectedFirst ==
    (Exchange /\ Malformed(req)) =>
        /\ Done
        /\ out.kind = "4XX" /\ out.status = StatusBadRequest /\ out.code = "invalid_request"
        /\ calls = <<>>

(***************************************************************************)
(* C3: when a mapper fails the exchange ends without a credential:         *)
(* IssueToken signs nothing, ExchangeToken returns an error and no access  *)
(* token; an issued credential carries the claim of every mapper that was  *)
(* collected for the request.                                              *)
(***************************************************************************)
MapperClaim(m) == IF m.kind = "current_group" THEN "dapla.group" ELSE "dapla.groups"

C3_MapperFailureAbortsIssuance ==
    Exchange =>
        /\ loc.mapperErr.isErr =>
              /\ Done
              /\ ~CredentialIssued
              /\ out.kind = "error"
              /\ ~Called("jwt.Build") /\ ~Called("jwt.Sign")
        /\ CredentialIssued =>
              \A i \in 1..Len(loc.mappers) : MapperClaim(loc.mappers[i]) \in out.token.claims.has

\* the second mapper failed after the first had written its claim
C3_Witness ==
    /\ Exchange /\ Done
    /\ loc.mapperErr.isErr
    /\ loc.idx = 2
    /\ "dapla.group" \in loc.builder.has
    /\ ~CredentialIssued

(***************************************************************************)
(* C4: for a sound token signed by a key of the current key set, Parse     *)
(* succeeds and returns the namespace and service-account name of the      *)
(* kubernetes.io claim the token carries.                                  *)
(***************************************************************************)
C4_ParseReturnsEmbeddedClaim ==
    (Exchange /\ ~req.isNil /\ SoundToken(req.SubjectToken) /\ KeyKnown(req.SubjectToken)) =>
        /\ ~loc.parseErr.isErr
        /\ loc.claim.Namespace = req.SubjectToken.k8s.namespace
        /\ loc.claim.ServiceAccountName = req.SubjectToken.k8s.name

\* a token signed by the second key of a two-key set, parsed
C4_Witness ==
    /\ Exchange /\ ~req.isNil
    /\ SoundToken(req.SubjectToken) /\ KeyKnown(req.SubjectToken)
    /\ req.SubjectToken.key = "k2"
    /\ loc.claim = KubernetesIoClaim(<<"user-ssb-", "kari">>, <<"sa">>)

(***************************************************************************)
(* C5: for a token signed by a key that the current key set lacks, Parse   *)
(* fails with an error that is ErrInvalidToken, and ExchangeToken answers  *)
(* 400 without calling a resolver or the issuer.                           *)
(***************************************************************************)
C5_UnknownKeyIsInvalidToken ==
    (Exchange /\ ~req.isNil /\ req.SubjectToken.form = "jws" /\ KeyUnknown(req.SubjectToken)) =>
        /\ ErrorsIs(loc.parseErr, ErrInvalidToken)
        /\ Done
        /\ out.kind = "4XX" /\ out.status = StatusBadRequest
        /\ ~CredentialIssued
        /\ ~Called("getSa") /\ ~Called("ListGroups")
        /\ ~Called("jwt.Build") /\ ~Called("jwt.Sign")

\* an otherwise sound token whose key is not in the set was refused
C5_Witness ==
    /\ Exchange /\ Done /\ ~req.isNil
    /\ SoundToken(req.SubjectToken)
    /\ StartsWithPrefix(req.SubjectToken.k8s.namespace)
    /\ KeyUnknown(req.SubjectToken)
    /\ out.kind = "4XX"

(***************************************************************************)
(* C6: when the key source fails, Parse returns an error that starts with  *)
(* "get jwks:" and is not ErrInvalidToken, and ExchangeToken hands it back *)
(* as an error (the server-failure path), never as the 400 answer; and an  *)
(* ErrInvalidToken is always answered 400, never handed back as an error.  *)
(***************************************************************************)
KeySourceFailed == \E i \in CallsOf("Jwks.Get") : ~calls[i].ret.ok

C6_KeySourceFailureIsServerError ==
    Exchange =>
        /\ KeySourceFailed =>
              /\ loc.parseErr.isErr
              /\ Head(loc.parseErr.text) = "get jwks: "
              /\ ~ErrorsIs(loc.parseErr, ErrInvalidToken)
              /\ Done
              /\ out.kind = "error" /\ out.err = loc.parseErr
        /\ ErrorsIs(loc.parseErr, ErrInvalidToken) =>
              /\ Done
              /\ out.kind = "4XX" /\ out.status = StatusBadRequest
              /\ ~out.err.isErr

\* the key source was down for a request with a sound token
C6_Witness ==
    /\ Exchange /\ Done /\ ~req.isNil
    /\ KeySourceFailed
    /\ SoundToken(req.SubjectToken)
    /\ out.kind = "error"

(***************************************************************************)
(* C7: a resolver runs only if its scope was requested: getSa is called    *)
(* only when current_group is among the comma-separated scopes, ListGroups *)
(* only when all_groups is; without a scope neither runs; each runs at     *)
(* most once, so a request runs none, one or both.                         *)
(***************************************************************************)
C7_ResolverOnlyForRequestedScope ==
    Exchange =>
        /\ Called("getSa") => ScopeRequested(req, "current_group")
        /\ Called("ListGroups") => ScopeRequested(req, "all_groups")
        /\ Cardinality(CallsOf("getSa")) <= 1
        /\ Cardinality(CallsOf("ListGroups")) <= 1
        /\ \A i \in 1..Len(loc.mappers) :
              ScopeRequested(req, IF loc.mappers[i].kind = "current_group"
                                  THEN "current_group" ELSE "all_groups")

\* both resolvers ran for one request
C7_Witness ==
    /\ Exchange /\ Done
    /\ Called("getSa") /\ Called("ListGroups")
    /\ CredentialIssued

(***************************************************************************)
(* C8: for a sound token of namespace "user-ssb-<name>", scope             *)
(* current_group (and not all_groups), and a service account that carries  *)
(* the annotation dapla.ssb.no/impersonate-group = g, the exchange answers *)
(* 200 with a credential of subject <name> and claim dapla.group = g; the  *)
(* service account is looked up once, by the name and in the namespace the *)
(* token names. Building and signing the credential are taken to succeed:  *)
(* if they fail, or the lookup gives no annotation, nothing is issued.     *)
(***************************************************************************)
BuildOrSignFailed ==
    \E i \in 1..Len(calls) : calls[i].fn \in {"jwt.Build", "jwt.Sign"} /\ ~calls[i].ret.ok

C8_Case ==
    /\ Exchange /\ ~req.isNil
    /\ SoundToken(req.SubjectToken)
    /\ StartsWithPrefix(req.SubjectToken.k8s.namespace)
    /\ KeyKnown(req.SubjectToken)
    /\ ScopeRequested(req, "current_group")
    /\ ~ScopeRequested(req, "all_groups")

C8_CurrentGroupClaim ==
    C8_Case =>
        /\ pc \in {"issue", "done"}
        /\ Done =>
              /\ Cardinality(CallsOf("getSa")) = 1
              /\ \A i \in CallsOf("getSa") :
                    /\ calls[i].a1 = req.SubjectToken.k8s.name
                    /\ calls[i].a2 = req.SubjectToken.k8s.namespace
                    /\ IF /\ ~calls[i].ret.failed
                          /\ DaplaGroupAnnotation \in DOMAIN calls[i].ret.annotations
                          /\ ~BuildOrSignFailed
                       THEN /\ out.kind = "OK" /\ out.status = StatusOK
                            /\ CredentialIssued
                            /\ {"sub", "dapla.group"} \subseteq out.token.claims.has
                            /\ out.token.claims.sub = Tail(req.SubjectToken.k8s.namespace)
                            /\ out.token.claims.dapla_group =
                                   calls[i].ret.annotations[DaplaGroupAnnotation]
                       ELSE ~CredentialIssued

\* kari's token was exchanged for a credential with dapla.group = g2
C8_Witness ==
    /\ C8_Case /\ Done
    /\ out.kind = "OK"
    /\ out.token.claims.sub = <<"kari">>
    /\ out.token.claims.dapla_group = "g2"

(***************************************************************************)
(* C9 as stated: when a resolver fails, what ExchangeToken returns carries *)
(* that resolver's error kind, so GroupNotAssigned, UpstreamUnavailable    *)
(* and PrincipalNotFound can be told apart in it.                          *)
(***************************************************************************)
ErrorKind(err) ==
    IF ~err.isErr THEN "none"
    ELSE IF err.text = <<"service account has no associated group">> THEN "GroupNotAssigned"
    ELSE IF err.text = <<"team api could not find user">> THEN "PrincipalNotFound"
    ELSE IF err.text = <<"unexpected error issuing token">> THEN "IssuanceError"
    ELSE "UpstreamUnavailable"

UpstreamFailureKind(c) ==
    IF c.fn = "getSa"
    THEN IF c.ret.failed THEN "UpstreamUnavailable" ELSE "GroupNotAssigned"
    ELSE IF cfg.PopulateAllGroups = "teamapi" /\ c.ret.transport = "ok"
            /\ c.ret.status = StatusNotFound
    THEN "PrincipalNotFound"
    ELSE "UpstreamUnavailable"

C10_AllGroupsClaim ==
    (Exchange /\ cfg.PopulateAllGroups # "nil") =>
        /\ \A i \in CallsOf("ListGroups") :
              /\ StartsWithPrefix(req.SubjectToken.k8s.namespace)
              /\ calls[i].a1 = Tail(req.SubjectToken.k8s.namespace) \o <<"@ssb.no">>
        /\ (Done /\ out.kind = "OK" /\ ScopeRequested(req, "all_groups")) =>
              /\ Cardinality(CallsOf("ListGroups")) = 1
              /\ \A i \in CallsOf("ListGroups") :
                    /\ calls[i].ret.transport = "ok" /\ calls[i].ret.status = StatusOK
                    /\ "dapla.groups" \in out.token.claims.has
                    /\ out.token.claims.dapla_groups = calls[i].ret.groups

\* kari's groups, as the directory listed them
C10_Witness ==
    /\ Exchange /\ Done /\ out.kind = "OK"
    /\ \E i \in CallsOf("ListGroups") : calls[i].a1 = <<"kari", "@ssb.no">>
    /\ out.token.claims.dapla_groups = <<"g2", "g1">>

(***************************************************************************)
(* C11: a credential produced by IssueToken has the subject IssueToken was *)
(* given as username, the configured issuer (no iss claim when the         *)
(* configured issuer is the empty string), the audience list of the        *)
(* request and, as scope, the scope string of the request ("" when the     *)
(* request has no scope).                                                  *)
(***************************************************************************)
C11_FixedClaimsCopied ==
    (Exchange /\ CredentialIssued) =>
        LET c == out.token.claims
        IN  /\ {"sub", "aud", "scope"} \subseteq c.has
            /\ c.sub = loc.username
            /\ c.sub = TrimPrefix(loc.claim.Namespace, UserNamespacePrefix)
            /\ IF cfg.Issuer = "" THEN "iss" \notin c.has
               ELSE "iss" \in c.has /\ c.iss = cfg.Issuer
            /\ c.aud = req.Audience
            /\ c.scope = (IF req.hasScope THEN req.Scope ELSE <<>>)

\* both scopes and two audiences went into a credential with an issuer
C11_Witness ==
    /\ Exchange /\ CredentialIssued
    /\ req.Scope = <<"current_group", ",", "all_groups">>
    /\ req.Audience = <<"aud1", "aud2">>
    /\ out.token.claims.iss = "https://labid.example"
    /\ out.token.claims.scope = req.Scope

(***************************************************************************)
(* C12: the expires_in of a successful exchange response equals the        *)
(* lifetime the issuer is configured with, whatever that lifetime is.      *)
(***************************************************************************)
C12_ExpiresInIsLifetime ==
    (Exchange /\ Done /\ out.kind = "OK") => out.expiresIn = cfg.Expiry

(***************************************************************************)
(* C13: a sound token signed by a known key whose namespace does not       *)
(* start with "user-ssb-" is answered with a 4xx response (a caller        *)
(* error), which is neither the answer given to an invalid token nor the   *)
(* error return used for server failures.                                  *)
(***************************************************************************)
C13_InvalidNamespaceIsCallerError ==
    (/\ Exchange /\ ~req.isNil
     /\ SoundToken(req.SubjectToken) /\ KeyKnown(req.SubjectToken)
     /\ ~HasPrefix(req.SubjectToken.k8s.namespace, UserNamespacePrefix)) =>
        /\ Done
        /\ ~CredentialIssued
        /\ out.kind = "4XX"
        /\ out.status \in 400..499
        /\ ~ErrorsIs(loc.parseErr, ErrInvalidToken)

(***************************************************************************)
(* C14: every 4xx answer of the exchange carries an error code and a       *)
(* description, and the error ExchangeToken hands back after a key-source, *)
(* resolver or signing failure holds nothing of the text of the underlying *)
(* error.                                                                  *)
(***************************************************************************)
\* no part of the text of inner stands in the text of err
OmitsTextOf(err, inner) ==
    \A i \in 1..Len(err.text), j \in 1..Len(inner) : err.text[i] # inner[j]

C14_ErrorsOmitInternalDetail ==
    (Exchange /\ Done) =>
        /\ out.kind = "4XX" =>
              /\ out.code = "invalid_request"
              /\ out.hasDescription /\ out.description # <<>>
        /\ (out.kind = "error" /\ KeySourceFailed) =>
              OmitsTextOf(out.err, <<"jwks source unavailable">>)
        /\ (out.kind = "error" /\ loc.mapperErr.isErr) =>
              OmitsTextOf(out.err, loc.mapperErr.text)
        /\ (out.kind = "error" /\ BuildOrSignFailed) =>
              OmitsTextOf(out.err, <<"jwt: build failed", "jwt: sign failed">>)

(***************************************************************************)
(* C15: when Register or the first fetch of the key set fails,             *)
(* CachedJwksGetter returns an error and the process exits without having  *)
(* served a request; a serving process always holds a key set; a failed    *)
(* refresh leaves the cached key set as it was, and a request that arrives *)
(* after it and gets an answer from the getter is validated against that   *)
(* key set. (The getter can still return an error of its own to a request; *)
(* a failed refresh is not among its causes.)                              *)
(***************************************************************************)
Serving == pc \notin {"start", "exited"}

FirstFetchFailed ==
    /\ boot.ran /\ boot.file.read
    /\ ~ParseRsaKeyPair(boot.file.raw).err.isErr
    /\ (~boot.registered \/ ~boot.fetch.ok)

C15_StartupAndStaleKeySet ==
    /\ FirstFetchFailed =>
          /\ pc = "exited" /\ boot.err.isErr
          /\ ~jwksCache.ready
          /\ op = "none" /\ calls = <<>> /\ out = NoResponse
    /\ Serving => jwksCache.ready /\ jwksCache.keys \in KeySets
    /\ (Exchange /\ ~req.isNil) =>
          \A i \in CallsOf("Jwks.Get") :
              calls[i].ret.ok =>
                  /\ calls[i].ret.keys = jwksCache.keys
                  /\ (SoundToken(req.SubjectToken) /\ req.SubjectToken.key \in jwksCache.keys)
                        => ~loc.parseErr.isErr

C15_FailedRefreshKeepsKeySet ==
    (jwksCache.ready /\ ~jwksCache.stale /\ jwksCache'.stale) =>
        jwksCache'.ready /\ jwksCache'.keys = jwksCache.keys

Verifies(credential, keySet) ==
    \E k \in keySet : k.kid = credential.key /\ k.alg = credential.alg /\ k.kid # ""

C16_CredentialVerifiesWithPublishedKey ==
    /\ (Exchange /\ CredentialIssued) =>
          /\ out.token.alg = "RS256"
          /\ out.token.key = ParseRsaKeyPair(boot.file.raw).private.kid
          /\ Verifies(out.token, localJwks)
    /\ \A k \in localJwks : ~k.private
    /\ (op = "Jwks" /\ Done) =>
          /\ out.description[3] = localJwks
          /\ Serving => Cardinality(localJwks) = 1

\* a credential signed with the key of the key file
C16_Witness ==
    /\ Exchange /\ CredentialIssued
    /\ out.token.key = "rsa-1"
    /\ localJwks = {Jwk("rsa-1", "RS256", "sig", FALSE)}

(***************************************************************************)
(* C17: when the bytes of the key file do not PEM-decode, do not parse as  *)
(* PKCS8 or hold a key that is not RSA, ParseRsaKeyPair returns an error   *)
(* and no keys, and main exits with the error logged: no key is published, *)
(* no request is served and nothing is signed. A serving process was given *)
(* a PEM-encoded PKCS8 RSA key.                                            *)
(***************************************************************************)
BadKeyMaterial(m) == ~m.pem \/ ~m.pkcs8 \/ m.family # "RSA"

C17_BadKeyMaterialFailsFast ==
    /\ (boot.ran /\ boot.file.read /\ BadKeyMaterial(boot.file.raw)) =>
          LET pair == ParseRsaKeyPair(boot.file.raw)
          IN  /\ pair.err.isErr /\ pair.private = NoKey /\ pair.public = NoKey
              /\ pc = "exited"
              /\ boot.err = Wrap("parse RSA keypair: ", pair.err)
              /\ logged = <<boot.err.text>>
              /\ localJwks = {} /\ cfg.SigningKey = ""
              /\ op = "none" /\ calls = <<>> /\ out = NoResponse
    /\ Serving => boot.ran /\ boot.file.read /\ ~BadKeyMaterial(boot.file.raw)
    /\ (Exchange /\ CredentialIssued) => ~BadKeyMaterial(boot.file.raw)

\* an elliptic-curve key in the key file stopped the process
C17_Witness ==
    /\ pc = "exited"
    /\ boot.file.read /\ boot.file.raw.pkcs8 /\ boot.file.raw.family = "EC"
    /\ boot.registered /\ boot.fetch.ok /\ boot.clientOk

(***************************************************************************)
(* C18: UserContext calls the next handler exactly when every step         *)
(* succeeds. It answers 500 and does not call next when the context holds  *)
(* no token or a value that is no token, when the kubernetes.io claim      *)
(* cannot be read, when the service-account getter fails and when the      *)
(* group annotation is absent; the getter is not called before the claim   *)
(* was read. Otherwise it calls next once, with UserInfo{Name: the         *)
(* namespace without a leading "user-ssb-", Group: the annotation value}.  *)
(***************************************************************************)
UserContextRan ==
    \/ op = "UserContext" /\ Done
    \/ Legacy /\ mw.ctx.kind = "token" /\ pc \in {"GetToken", "done"}

C18_UserContextNextIffAllSucceed ==
    UserContextRan =>
        LET ctx == mw.ctx
            sas == CallsOf("getServiceAccount")
            unreadable == ctx.kind # "token" \/ ~ctx.hasK8s
            failing ==
                \/ unreadable
                \/ \E i \in sas : \/ calls[i].ret.failed
                                  \/ DaplaGroupAnnotation \notin DOMAIN calls[i].ret.annotations
        IN  /\ mw.hasUserInfo <=> ~failing
            /\ unreadable => sas = {}
            /\ ~unreadable =>
                  /\ Cardinality(sas) = 1
                  /\ \A i \in sas : /\ calls[i].a1 = ctx.k8s.ServiceAccountName
                                    /\ calls[i].a2 = ctx.k8s.Namespace
            /\ failing =>
                  /\ out.kind = "http" /\ out.status = StatusInternalServerError
                  /\ ~CredentialIssued
                  /\ ~Called("next.ServeHTTP")
            /\ ~failing =>
                  /\ mw.ui.Name = (IF StartsWithPrefix(ctx.k8s.Namespace)
                                   THEN Tail(ctx.k8s.Namespace) ELSE ctx.k8s.Namespace)
                  /\ \A i \in sas :
                        mw.ui.Group = calls[i].ret.annotations[DaplaGroupAnnotation]
                  /\ op = "UserContext" =>
                        /\ Cardinality(CallsOf("next.ServeHTTP")) = 1
                        /\ \A j \in CallsOf("next.ServeHTTP") :
                              calls[j].a1 = mw.ui.Name /\ calls[j].a2 = <<mw.ui.Group>>

\* next was called with kari and the group g1
C18_Witness ==
    /\ op = "UserContext" /\ Done
    /\ mw.hasUserInfo
    /\ mw.ui = UserInfo(<<"kari">>, "g1")
    /\ Called("next.ServeHTTP")

(***************************************************************************)
(* C19: the responses of the WellKnown and Jwks handlers carry the header  *)
(* Content-Type: application/json.                                         *)
(***************************************************************************)
C19_DiscoveryIsJson ==
    (op \in {"WellKnown", "Jwks"} /\ Done /\ out.kind = "http") =>
        out.contentType = "application/json"

(***************************************************************************)
(* C20: a subject token that cannot be syntactically parsed is rejected    *)
(* with ErrInvalidToken as the first validation step, before the key set   *)
(* is fetched: Parse returns ErrInvalidToken for it whether or not the key *)
(* source is available.                                                    *)
(***************************************************************************)
ParseCalled == Exchange /\ ~req.isNil /\ (Called("Jwks.Get") \/ Called("jwt.Parse"))

Unparsable(t) == t.form # "jws"

C20_UnparsableRejectedBeforeFetch ==
    (ParseCalled /\ Unparsable(req.SubjectToken)) =>
        /\ ErrorsIs(loc.parseErr, ErrInvalidToken)
        /\ \A i \in CallsOf("Jwks.Get") : \E j \in CallsOf("jwt.Parse") : j < i

\* C20 as the code has it: Parse fetches the key set first. An unparsable
\* token is rejected with ErrInvalidToken, answered 400, when the key source
\* answers; when the key source fails, Parse returns the "get jwks:" error,
\* which is not ErrInvalidToken, without looking at the token.
C20_UnparsableRejectedAfterFetch ==
    (ParseCalled /\ Unparsable(req.SubjectToken)) =>
        /\ calls[1].fn = "Jwks.Get"
        /\ calls[1].ret.ok =>
              /\ Cardinality(CallsOf("jwt.Parse")) = 1
              /\ ErrorsIs(loc.parseErr, ErrInvalidToken)
              /\ Done /\ out.kind = "4XX" /\ out.status = StatusBadRequest
        /\ ~calls[1].ret.ok =>
              /\ ~Called("jwt.Parse")
              /\ loc.parseErr.isErr
              /\ ~ErrorsIs(loc.parseErr, ErrInvalidToken)
              /\ Head(loc.parseErr.text) = "get jwks: "
              /\ Done /\ out.kind # "4XX"
        /\ ~CredentialIssued

\* an unparsable token met a failing key source
C20_Witness ==
    /\ ParseCalled /\ Done
    /\ req.SubjectToken = GarbageToken
    /\ KeySourceFailed
    /\ ~ErrorsIs(loc.parseErr, ErrInvalidToken)

(***************************************************************************)
(* C21: a correctly signed token whose kubernetes.io claim is missing or   *)
(* malformed (no object, a field that is no string, an object without the  *)
(* namespace and the service-account name) is rejected by Parse with       *)
(* ErrInvalidToken; Parse returns no claim, and so no empty or defaulted   *)
(* namespace or service-account name, for such a token.                    *)
(***************************************************************************)
MalformedClaim(e) == e.shape # "object" \/ e.fields # {"namespace", "serviceaccount"}

C21_MalformedClaimIsInvalidToken ==
    (/\ Exchange /\ ~req.isNil
     /\ req.SubjectToken.form = "jws" /\ req.SubjectToken.defect = "none"
     /\ KeyKnown(req.SubjectToken)
     /\ MalformedClaim(req.SubjectToken.k8s)) =>
        /\ ErrorsIs(loc.parseErr, ErrInvalidToken)
        /\ out.kind = "4XX" /\ out.status = StatusBadRequest

(***************************************************************************)
(* C22: an exchange goes through its steps in the order ReceivedRequest,   *)
(* Validated, IdentityResolved, GroupsPopulated, Issued, Responded. The    *)
(* calls of an exchange are made in that order: key set, parser, the       *)
(* resolvers, Build, Sign; every call but the last one succeeded; a call   *)
(* that fails is the last call and ends the exchange without a credential; *)
(* a resolver or the signer is called only for a validated token with a    *)
(* resolved identity; and a 200 answer with an access token follows a      *)
(* successful jwt.Sign only.                                               *)
(***************************************************************************)
StepOf(fn) ==
    CASE fn = "Jwks.Get" -> 1
      [] fn = "jwt.Parse" -> 2
      [] fn = "getSa" -> 3
      [] fn = "ListGroups" -> 4
      [] fn = "jwt.Build" -> 5
      [] fn = "jwt.Sign" -> 6
      [] OTHER -> 0

Succeeded(c) ==
    CASE c.fn = "Jwks.Get" -> c.ret.ok
      [] c.fn = "jwt.Parse" -> ~c.ret.isErr
      [] c.fn = "getSa" -> ~c.ret.failed /\ DaplaGroupAnnotation \in DOMAIN c.ret.annotations
      [] c.fn = "ListGroups" ->
            c.ret.transport = "ok" /\ c.ret.status = StatusOK /\ c.ret.decodable
      [] c.fn = "jwt.Build" -> c.ret.ok
      [] c.fn = "jwt.Sign" -> c.ret.ok
      [] OTHER -> FALSE

C22_StepsInOrder ==
    Exchange =>
        /\ \A i, j \in 1..Len(calls) : i < j => StepOf(calls[i].fn) < StepOf(calls[j].fn)
        /\ \A i \in 1..Len(calls) : StepOf(calls[i].fn) > 0
        /\ \A i \in 1..Len(calls) : i < Len(calls) => Succeeded(calls[i])
        /\ (\E i \in 1..Len(calls) : ~Succeeded(calls[i])) =>
              Done /\ ~CredentialIssued /\ out.kind # "OK"
        /\ (\E i \in 1..Len(calls) : StepOf(calls[i].fn) >= 2) => Called("Jwks.Get")
        /\ (\E i \in 1..Len(calls) : StepOf(calls[i].fn) >= 3) =>
              /\ Called("jwt.Parse")
              /\ ~loc.parseErr.isErr
              /\ loc.username # loc.claim.Namespace
              /\ loc.claim.Namespace = UserNamespacePrefix \o loc.username
        /\ Called("jwt.Build") => loc.idx > Len(loc.mappers)
        /\ Called("jwt.Sign") => Called("jwt.Build")
        /\ pc = "issue" =>
              /\ out = NoResponse
              /\ ~loc.parseErr.isErr /\ loc.username # loc.claim.Namespace
        /\ (out.kind = "OK" \/ CredentialIssued) =>
              /\ Done
              /\ out.kind = "OK" /\ out.status = StatusOK /\ CredentialIssued
              /\ calls[Len(calls)].fn = "jwt.Sign" /\ calls[Len(calls)].ret.ok
              /\ loc.idx > Len(loc.mappers)
              /\ ~loc.mapperErr.isErr

\* an exchange that went through every step: both resolvers, Build, Sign, 200
C22_Witness ==
    /\ Exchange /\ Done /\ out.kind = "OK"
    /\ [i \in 1..Len(calls) |-> calls[i].fn]
         = <<"Jwks.Get", "jwt.Parse", "getSa", "ListGroups", "jwt.Build", "jwt.Sign">>

(***************************************************************************)
(* C23: no retries. Within one exchange the key source, the token parser,  *)
(* each group resolver, Build and Sign are each called at most once,       *)
(* whichever of them fails and however often a scope is named in the       *)
(* request.                                                                *)
(***************************************************************************)
UpstreamCalls == {"Jwks.Get", "jwt.Parse", "getSa", "ListGroups", "jwt.Build", "jwt.Sign"}

C23_NoRetry ==
    Exchange =>
        /\ \A fn \in UpstreamCalls : Cardinality(CallsOf(fn)) <= 1
        /\ Len(loc.mappers) <= 2
        /\ \A i, j \in 1..Len(loc.mappers) : i # j => loc.mappers[i].kind # loc.mappers[j].kind
        /\ Len(calls) <= Cardinality(UpstreamCalls)

\* the scope named current_group twice, the service-account getter failed: one call
C23_Witness ==
    /\ Exchange /\ Done
    /\ req.Scope = <<"current_group", ",", "current_group">>
    /\ Cardinality(CallsOf("getSa")) = 1
    /\ \E i \in CallsOf("getSa") : calls[i].ret.failed
    /\ out.kind = "error"

(***************************************************************************)
(* C24: in every credential IssueToken issues, exp - iat is exactly the    *)
(* configured lifetime, even when the clock advances while IssueToken      *)
(* runs.                                                                   *)
(***************************************************************************)
C24_LifetimeIsExact ==
    (Exchange /\ CredentialIssued) =>
        out.token.claims.exp - out.token.claims.iat = cfg.Expiry

(***************************************************************************)
(* C25: mapper order does not matter. IssueToken given the current-group   *)
(* and the all-groups mapper in one order and in the other, the resolvers  *)
(* answering alike, fails in both orders when one of the two mappers       *)
(* fails, and otherwise issues credentials with the same claims.           *)
(***************************************************************************)
Populators(ms) == \A i \in 1..Len(ms) : ms[i].kind \in {"current_group", "all_groups"}

SameCall(a, b) ==
    /\ a.username = b.username /\ a.audience = b.audience /\ a.scopes = b.scopes
    /\ a.sa = b.sa /\ a.d = b.d /\ a.signing = b.signing
    /\ a.now1 = b.now1 /\ a.now2 = b.now2

C25_MapperOrderIrrelevant ==
    \A i, j \in 1..Len(issuances) :
        (/\ SameCall(issuances[i], issuances[j])
         /\ Populators(issuances[i].mappers)
         /\ issuances[j].mappers = Reverse(issuances[i].mappers)) =>
            /\ issuances[i].res.err.isErr <=> issuances[j].res.err.isErr
            /\ issuances[i].res.token.signed <=> issuances[j].res.token.signed
            /\ issuances[i].res.token.claims = issuances[j].res.token.claims

\* both mappers in both orders, both credentials with dapla.group and dapla.groups
C25_Witness ==
    /\ Len(issuances) = 2
    /\ Len(issuances[1].mappers) = 2
    /\ Populators(issuances[1].mappers)
    /\ issuances[2].mappers = Reverse(issuances[1].mappers)
    /\ SameCall(issuances[1], issuances[2])
    /\ issuances[1].res.token.signed /\ issuances[2].res.token.signed
    /\ {"dapla.group", "dapla.groups"} \subseteq issuances[2].res.token.claims.has

WroteForeignClaims(call) == \E i \in 1..Len(call.mappers) : call.mappers[i].kind = "foreign"

OwnClaims(call) ==
    LET cl == call.res.token.claims
    IN  /\ {"sub", "exp", "iat", "aud", "scope"} \subseteq cl.has
        /\ cl.sub = call.username
        /\ cl.exp = call.now1 + cfg.Expiry
        /\ cl.iat = call.now2
        /\ cl.aud = call.audience
        /\ cl.scope = Join(call.scopes, ",")

C30_FixedClaimsAreTheIssuers ==
    \A i \in 1..Len(issuances) :
        issuances[i].res.token.signed =>
            LET cl == issuances[i].res.token.claims
            IN  /\ OwnClaims(issuances[i])
                /\ IF cfg.Issuer = "" THEN "iss" \notin cl.has
                   ELSE "iss" \in cl.has /\ cl.iss = cfg.Issuer

\* C30 as the code has it: sub, exp, iat, aud and scope are always the issuer's;
\* iss is the issuer's when an issuer is configured, and with an empty configured
\* issuer IssueToken sets no iss, so that a mapper's iss stays in the credential.
C30_FixedClaimsButUnsetIssuer ==
    \A i \in 1..Len(issuances) :
        issuances[i].res.token.signed =>
            LET cl == issuances[i].res.token.claims
            IN  /\ OwnClaims(issuances[i])
                /\ cfg.Issuer # "" => "iss" \in cl.has /\ cl.iss = cfg.Issuer
                /\ cfg.Issuer = "" =>
                      /\ "iss" \in cl.has <=> WroteForeignClaims(issuances[i])
                      /\ "iss" \in cl.has => cl.iss = "https://other.example"

\* a mapper wrote all six claims, and the credential carries the issuer's
C30_Witness ==
    \E i \in 1..Len(issuances) :
        /\ WroteForeignClaims(issuances[i])
        /\ issuances[i].res.token.signed
        /\ cfg.Issuer # ""
        /\ issuances[i].res.token.claims.sub = <<"kari">>
        /\ issuances[i].res.token.claims.iss = cfg.Issuer

(***************************************************************************)
(* C29: for every value of the Authorization header, those shorter than    *)
(* the 7 characters of "bearer " included, JwkSetValidator ends with a     *)
(* defined outcome: 401 for a missing header or an invalid token, 403 for  *)
(* another scheme, 500 when the key set cannot be fetched, or the request  *)
(* passed on; and the next handler is called only for a bearer token that  *)
(* validates against the key set.                                          *)
(***************************************************************************)
IsBearer(h) ==
    Len(h.pre) >= BearerPrefixLen /\ EqualFold(SubSeq(h.pre, 1, BearerPrefixLen), BearerPrefix)

PassedOn == mw.ctx.kind = "token"

C29_ValidatorAlwaysAnswers ==
    Legacy =>
        LET h == req.Authorization
        IN  /\ out.kind # "panic"
            /\ h.pre = <<>> => out.kind = "http" /\ out.status = StatusUnauthorized
            /\ (h.pre # <<>> /\ ~IsBearer(h)) =>
                  out.kind = "http" /\ out.status = StatusForbidden
            /\ PassedOn =>
                  /\ IsBearer(h)
                  /\ h.tok.form = "jws" /\ h.tok.defect = "none"
                  /\ \E i \in CallsOf("getJwks") : calls[i].ret.ok /\ h.tok.key \in calls[i].ret.keys
            /\ (~PassedOn /\ IsBearer(h)) =>
                  out.kind = "http"
                  /\ out.status \in {StatusUnauthorized, StatusInternalServerError}

(***************************************************************************)
(* C27: requests are independent under concurrency. In every interleaving  *)
(* of two exchanges each one's outcome is what ExchangeToken gives for its *)
(* own request and the answers it got itself; the subject and the group    *)
(* claims of a credential, and of a builder being filled, come from that   *)
(* request's own subject token, scopes and audience; and a step of one     *)
(* request changes neither the other request nor the handler, the signing  *)
(* key or the key-set cache.                                               *)
(***************************************************************************)
Alone(me) ==
    LET c == ExchangeTokenCollect(cfg, me.req, me.saw.jwks)
        alone == IssueToken(cfg, c.loc.username, me.req.Audience, c.loc.scopes, c.loc.mappers,
                            me.saw.sa, me.saw.d, 0, 0, me.saw.signing)
    IN  IF c.returned THEN c.res ELSE ExchangeTokenRespond(alone).res

OwnGroupsOnly(i, claims) ==
    /\ "dapla.group" \in claims.has =>
          /\ ScopeRequested(inflight[i].req, "current_group")
          /\ claims.dapla_group = UserGroup[i]
    /\ "dapla.groups" \in claims.has =>
          /\ ScopeRequested(inflight[i].req, "all_groups")
          /\ claims.dapla_groups = UserGroups[i]

C27_EachRequestOnItsOwn ==
    \A i \in DOMAIN inflight :
        LET me == inflight[i]
        IN  /\ me.pc = "issue" => OwnGroupsOnly(i, me.loc.builder)
            /\ me.pc = "done" =>
                  /\ me.out = Alone(me)
                  /\ me.out.token.signed =>
                        /\ me.out.token.claims.sub = <<Users[i]>>
                        /\ me.out.token.claims.aud = me.req.Audience
                        /\ me.out.token.claims.scope = me.req.Scope
                        /\ OwnGroupsOnly(i, me.out.token.claims)
                        /\ ScopeRequested(me.req, "current_group") =>
                              "dapla.group" \in me.out.token.claims.has
                        /\ ScopeRequested(me.req, "all_groups") =>
                              "dapla.groups" \in me.out.token.claims.has

C27_StepsTouchOwnRequestOnly ==
    \A i \in DOMAIN inflight :
        (i \in DOMAIN inflight' /\ inflight'[i] # inflight[i]) =>
            /\ \A j \in DOMAIN inflight : j # i => inflight'[j] = inflight[j]
            /\ UNCHANGED <<cfg, localJwks, jwksCache>>

C27_RequestsIndependent ==
    [](cfg.SigningKey = "rsa-1" /\ C27_EachRequestOnItsOwn)
    /\ [][C27_StepsTouchOwnRequestOnly]_vars

\* kari's credential is out while ola's builder is being filled, after a refresh
\* of the key set
C27_Witness ==
    /\ DOMAIN inflight = 1..2
    /\ inflight[1].pc = "done" /\ inflight[1].out.token.signed
    /\ inflight[1].out.token.claims.dapla_group = "g1"
    /\ inflight[2].pc = "issue"
    /\ inflight[2].loc.builder.dapla_group = "g2"
    /\ jwksCache.keys = {"k1", "k2"}

(***************************************************************************)
(* C28: every upstream call of a request (key set, service account,        *)
(* directory) is bound to the request's context: a call made after the     *)
(* caller cancelled does not go on to answer, and the exchange ends in     *)
(* failure without a credential.                                           *)
(***************************************************************************)
C28_CancelAbortsUpstreamCalls ==
    \A i \in DOMAIN inflight :
        LET me == inflight[i]
        IN  me.ctx = "cancelled" =>
                \A k \in 1..Len(me.calls) :
                    (k > me.before /\ me.calls[k].fn \in {"Jwks.Get", "getSa", "ListGroups"}) =>
                        /\ ~Succeeded(me.calls[k])
                        /\ me.pc = "done"
                        /\ ~me.out.token.signed /\ me.out.kind # "OK"

====
